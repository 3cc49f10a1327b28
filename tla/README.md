# ProofBundle verification project

TLA+ specifications of ProofBundle, checked with TLC and, where noted, proved
with TLAPS. They are translated from the source under `src/`; `PROJECT.json`
names, for every definition, the lines it stands for.

ProofBundle is a file format and a family of programs. A *bundle* is a JSON
document: a payload with its digest, optionally a boundary (a predicate over a
context the verifier supplies), a context commitment, side attestations,
references to parent bundles, an expiration, and a signature over everything
else. Programs in Rust, TypeScript, Go, Python and HTML seal, verify and trace
bundles; tools beside them hash the repository itself.

Contents: [inventory](#1-inventory) · [plan](#2-plan) ·
[modules and code](#3-modules-and-the-code-they-model) ·
[runs](#4-what-the-runs-check) · [bounds](#5-bounds) ·
[fairness](#6-fairness) · [proofs](#7-what-is-proved) ·
[findings](#8-where-code-and-documents-disagree) ·
[not modelled](#9-what-is-not-modelled)

## 1. Inventory

Sizes are lines of code. "Hard" names what tests hardly reach; the full list,
each entry at its line, is under `hazards` in `PROJECT.json`.

### Rust command line (`cli/src`, about 3400)

| Part | State | Operations | Hard | Correct when |
|---|---|---|---|---|
| Lineage trace (`lineage.rs`, `commands/lineage.rs`) | `LineageChain`: the chain and the set `visited`; the files of a directory | `resolve_lineage` with the two-path resolver of `run_trace`, `validate_lineage` | other processes replace, rename and half-write files during the trace; ids and references are different strings that are compared with each other; the budget | no id twice, the budget kept, the chain one that `validate_lineage` accepts, the trace returns, the verdict that of the walk |
| Seal (`seal.rs`, `commands/seal.rs`) | the bundle file | `seal_bundle`, `re_sign_bundle` | failure after the signature was removed; options that contradict each other | what is sealed verifies |
| Verify (`verify.rs`, `commands/verify.rs`) | a pipeline of 13 checks with early exits | `verify_bundle` | order of the checks, profile rules, a clock read by every boundary atom about the time and again for the expiration | only issued documents verify; nothing of a document counts before its signature; the verdict is one the checks can give in that time |
| Boundary evaluator (`boundary.rs`) | the call stack | `evaluate`, 16 atoms | each atom about the time reads the clock for itself; short circuits decide whether an error is met; missing fields; fractions of seconds | the walk computes the value of the specification; windows are right to the tick; an absent field passes no test; it returns |
| Digest, signature, canonical JSON | none | hash, sign, verify, encode | which algorithm goes with which key; what cannot be encoded | (primitives: taken as ideal) |
| Key generation (`commands/key.rs`) | two files | `generate` | a crash between the writes; two runs over one path; one path for both keys | exit code 0 means the pair is there |
| Command line, inspect (`main.rs`, `commands/seal.rs`, `commands/verify.rs`, `commands/inspect.rs`) | what a run has read; the file it is writing | `seal`, `verify`, `inspect` | each file is read by itself, another run may replace the next one meanwhile; `fs::write` truncates first; a panic | exit code 0 means written; files add nothing to the verdict |
| Conformance, argument parsing | none | reporting | | |

`verify` calls `boundary::evaluate`, `digest_hex`, `verify_signature` and
`encode_canonical`; `seal` calls the last three's counterparts. Seal and verify
meet only in the bundle file, and the commands in the files they share: `key
generate` writes two, `seal` reads one of them and writes a third, `verify` reads
two, `inspect` one. The lineage trace shares nothing with `verify`
but the document: `verify_bundle` never follows a parent.

### Libraries in other languages

| Part | State | Hard | Correct when |
|---|---|---|---|
| TypeScript core (`core/src`, 1700) | visited set copied for each branch of an asynchronous walk | `fetch` awaited per parent; a budget that counts ids, so that bundles without ids are free; `verify` digests members `seal` does not | as for Rust, and the languages agree |
| Go library (`go`, 1900) | one visited map of references, shared by all branches | an ancestor shared by two branches looks like a cycle | as above |
| Python library (`python/proofbundle`, 1450) | as TypeScript, over a map made of the parents given | eleven stages in another order; parents are filed under digests in the verified bundle's algorithm | as above |
| Release candidates of 2026-05-16 (`implementations/`) | a Go and a TypeScript core of their own; the TypeScript one remembers a set `visiting` and a set of ids it has verified | a verified id is not verified again, and a parent's digest is a claim of the parent | as above |

### Pages and services

| Part | State | Hard | Correct when |
|---|---|---|---|
| Browser verifier v1.0 (`web/proofbundle_v1_0_app.html`) | one `STATE` object, asynchronous handlers | `STATE` read again after an await | a package holds the key it was sealed with |
| Genesis page (`genesis/…html`) | `STATE`, whole, under one `localStorage` key | two tabs; updates by index while an import replaces the list | no claim is lost, a resolution goes to the prediction shown |
| HTTP verifier (`http-verifier/server.js`) | one request | an asynchronous result used without await | the answer is the verdict of the core |
| Offline cache (`app_wrappers/pwa/sw.js`) | a cache under a fixed name | stale entries | a new version is served some day |

### Tools

| Part | State | Operations | Hard | Correct when |
|---|---|---|---|---|
| Merkle manifest (`tools/build_repo_merkle_manifest_20260516.mjs`) | five output files | list, walk, read, publish | files change while they are read; five writes that are not atomic; overlapping runs; a run that dies; outputs inside the tree that is hashed | a published root is backed by its manifest, LATEST heals, one repository has one root |
| `compute_manifest.py`, source comparison, guard scan | none | a report over a tree at rest | | |

The rest of the repository is vectors, evidence, documents, wrappers and vendored
packages.

## 2. Plan

Done, in this order:

1. `LineageData`, `AncestorPath`, `LineageTrace`, `LineageTrace_proofs`: the
   part of the system where processes interleave, with an abstract
   specification and its refinement.
2. `BundleFormat`, `SealVerify`, `SealVerify_proofs`: the promise of the program.
3. `BoundaryEval`: the evaluator that `SealVerify` takes as a table.
4. `ManifestPublish`, `ManifestPublish_proofs`: several runs, faults, a clock.
5. `ParentRefs`, `Ancestry`, `LineageWalks`, `LineageWalks_proofs`: an abstract
   verification of an ancestry, and the recursive walks of TypeScript, Go, Python
   and the TypeScript release candidate as implementations of it.
6. `SealAndCheck` taken out of `SealVerify`: the functions `seal_bundle` and
   `verify_bundle` without a state, so that two modules can be built on them.
7. `CommandLine`, `CommandLine_proofs`: the composition of `key generate`,
   `seal`, `verify` and `inspect` over the files they share, with crashes.
8. `BoundaryEval_proofs`: the short-circuit walk against the bottom-up value.
9. `RecursionTheorems`: that recursively defined functions exist; with it the theorems
   that compare a program with one (`StableEvaluation`, `OneReading`,
   `VerdictsMatch`, `LibrariesAgree`).

To come:

10. `VerifyPipelines`: the stages of the TypeScript, Go and Python pipelines over
   `BundleFormat`; where the four languages give one bundle one verdict.
11. `BrowserSession` and `DemoStore`: handlers split at their awaits; two tabs
   over one store.
12. `HttpVerifier` (one request's events, with the offline cache).

## 3. Modules and the code they model

| Module | Models |
|---|---|
| `LineageData` | the members of a bundle the lineage code reads; `is_root`, `validate_lineage` |
| `AncestorPath` | abstract: a path that grows by bundles with fresh ids and ends in one verdict |
| `LineageTrace` | `resolve_lineage`, `LineageChain`, the resolver of `run_trace`, the directory |
| `LineageTrace_proofs` | theorems |
| `ParentRefs` | a document's id, digest algorithm and references as the four libraries read them; when a parent answers a reference |
| `Ancestry` | abstract: looks at ancestors in any order, accepts only when no parent is open |
| `LineageWalks` | `verifyParents` and its counterparts in TypeScript, Go, Python and the release candidate |
| `LineageWalks_proofs` | theorems |
| `BundleFormat` | the document as `verify_bundle` tells it apart; ideal digests and signatures |
| `SealAndCheck` | `seal_bundle` and the thirteen checks of `verify_bundle`, as operators |
| `SealAndCheck_proofs` | theorems |
| `SealVerify` | the bundle between `seal_bundle`, `re_sign_bundle`, other programs and `verify_bundle`, with a clock |
| `SealVerify_proofs` | theorems |
| `CommandLine` | the commands as processes over files |
| `CommandLine_proofs` | theorems |
| `BoundaryEval` | `boundary::evaluate`, its recursion as the variable `stack` |
| `BoundaryEval_proofs` | theorems |
| `RecursionTheorems` | no code: induction over sets of numbers, existence of recursive functions |
| `ManifestPublish` | the manifest tool, run by run and write by write |
| `ManifestPublish_proofs` | theorems |
| `MC…` | constants for TLC |

**LineageTrace.** `chain` and `visited` are the fields of `LineageChain`, `files`
the directory, `ref` the reference under resolution. `pc` names the places
between which another process can act: before the leaf is read, at the head of
the loop, before the plain path is tried, before the path with `.json`. The head
of the loop is one action per exit (`DepthExceeded`, `ParentsNotArray`,
`ReachRoot`, `ParentNotString`, `ReferenceSeen`) and `FollowParent`, their guards
carrying the order of the tests. `Link` is the rest of the iteration, part of
whichever read found the file. `Put` is any other process; a half-written
file counts as missing, because the resolver treats what does not parse as not
there.

**LineageWalks.** `walker` is the library that runs; a frame of `stack` is an
active call: the bundle it is at, the reference it will follow next, and `seen`, the set
that TypeScript and Python hand to it as a copy (the set `visiting` of the release
candidate has the same members). `shared` is what survives a branch: Go's map of
references and the release candidate's set of verified ids. A step is one
reference: `RefuseReference` (Go tests budget and cycle before it looks for the
parent), `ParentMissing`, `RefuseParent`, `SkipParent` (the call returns at once) or
`EnterParent`; `Leave` is the end of a call's loop. A document is named by its
digest, so the references of a document name only documents that existed before it,
or `Junk`; but the digest the release candidate compares is what the parent's own seal
claims, so its references can form cycles. A digest is a document and the algorithm it was
made with (`Value`); a reference also says which algorithm that is (`alg`), which may be wrong,
unknown or missing. Each library takes its algorithm from elsewhere (`Used`): TypeScript from
the reference, Go from the reference or else the parent, Python from the reference or else
SHA-256, and the release candidate computes nothing. A digest that cannot be computed (unknown
algorithm, a parent in `Uncanonical`) is the verdict "error". `Budget` is the depth asked for,
100 for Go when that is 0. `store` is what a parent id
resolves to; Python's resolver tells apart several bundles with one id. It is a map made
before the walk under digests in the algorithm of the bundle that is verified: `PyEntry` is that
loop, which refuses an empty list and raises on a parent without a digest, and `Lookup` finds
only what a reference names in that algorithm. `Put` is the
store changing between two fetches, which only TypeScript can meet: its `fetch`
is awaited for each parent, the other libraries are given a map.

**SealAndCheck and SealVerify.** A verification is `Begin` followed by one `Pass` or `Fail` for
each of the thirteen checks, with `Tick` in between; `Check(i, …)` is the i-th
check of `verify_bundle`. Everything the pipeline reads but the clock is
fixed when it begins, as in the code, where the file has been parsed. Before
that, `Seal` makes a bundle, `ReSign` signs it again, and `EditMember`,
`EditSection` and `EditSignature` stand for other programs. A digest is the pair
of algorithm and input, a signature names key, algorithm and body; canonical
encoding is injective where it succeeds and fails for the values in
`Uncanonical` (floats, large integers), as does a bundle with such a value in its
boundary or its side attestations. The boundary is the table `Evaluate`: for the moments a
call begins and returns at, what it may return. It is a set, and not always that of one
moment, because each atom about the time reads the clock for itself: `any` of `expired`,
`not_expired` and a malformed atom is true at every moment, and an error when the timestamp passes
between the first two. `BoundaryEval` has that walk; the specification `either` of the
run is the example. `since` is the clock when the check at hand began, so that the ninth check may
take any time (`Readings`), and `value` is what it returned. The
nesting depth and the size of a document are options of `Begin`: only that they
are over the limit matters. `issued` and `origin` are history: the
signatures ever made, and the options of a bundle nobody has touched.

**CommandLine.** Each process is one run of the program. `Start` and `Generate`
begin it; `Read` is one `fs::read`, in the order of the code (`held` is what was
read); then `Seal`, `Verify` and `Inspect` are one step each, since from there on
they depend on nothing but what is held and, for `Verify`, the clock: its answer is any
of `Verifications`, the verdicts `VerdictIsAtomic` of `SealVerify` allows for any two moments. A write is
`Open`, which empties the file, and `Write`: `fs::write` does both. Two runs that
have a file open at once leave what one of them wrote or a mixture. `Stop` is a
failing write or a kill, before, while or after a file is open. `shared` says
that the file a run has open was opened by another one too; `last`, `clean` and
`source` are history. A key pair is named by the run that makes it.

**BoundaryEval.** A frame of `stack` is an active call and the operand it is at.
`EvaluateField` returns the value of a field atom at the present `clock`;
`CallOperand`, `ShortCircuit`, `NextOperand` and `LoopEnds` are the loops of
`all` and `any` and the single call of `not`. A value is its type, its place in
the order of its type, and for a string the instant it denotes: `before` and
`after` compare the place (characters), the others the instant. A specification is a JSON
document: `DocumentAssumption` says that it is nested finitely (`Nesting`) and that each
atom stands in one place of it.

**ManifestPublish.** Each process is one run of the tool. Reading is one step per
file; publication one step per effect, and a write is two, since a run may
die or another run may write between the opening, which truncates, and the
write: `OpenManifest`, `WriteManifest`, `ReadBack` (the digest is taken from the
file, not from memory), `OpenRoot`, `WriteRoot`, the two copies, `AppendLog`.
Two runs that have one file open at once leave it `Garbled`.

Definitions whose comment begins with "Fault" or "faulty" are mutated forms used
only to show that a property can fail; no specification refers to them.

## 4. What the runs check

| Run | Shows |
|---|---|
| `lineage_honest` | Files named after the ids they hold, replaced at any time: at every moment the chain is one `validate_lineage` accepts, although the trace never calls it (`HonestChainValidates`); in a directory at rest the verdict is that of the walk along first parents within the budget, so no order of the tests hides one verdict behind another (`VerdictMatchesWalk`). |
| `lineage_mixed` | Files with the wrong id or none, one file under two names through the `.json` suffix: no id twice and `visited` is exactly the ids of the chain (`IdsDistinct`); the budget to the bundle (`BudgetKept`); the trace returns (`TraceReturns`), because each of its steps uses up one of a number the budget fixes and no change of the directory gives one back (`TraceAdvances`); it implements `AncestorPath` (`ImplementsAncestorPath`). |
| `lineage_sealed` | *violation*: a cycle of bundles without ids is not reported as a cycle. |
| `lineage_walks` | Four libraries over the same documents. `ImplementsAncestry`: a walk goes only into ancestors, and when it says "valid" no parent of a bundle it went into is open, although branches return early, bundles are skipped and the store changes between two fetches. `AgreedVerdict`: on a store every library can be given the verdict is the one that the ancestors and the budget determine, with the differences it names: trusted keys in TypeScript, a tree in Go, a long path the release candidate skips, and the algorithms each library expects digests in, which differ only where algorithms are mixed. `CycleIsReal`: what one branch visited is no cycle to another. `DepthBudget`, `WalkReturns`. |
| `lineage_shared` | *violation*: Go reports a cycle where an ancestor is reached along two references. The budget asked for is 0, which Go takes for 100. |
| `seal_verify` | `VerifiedIsIssued`: with a key, what verifies is to the last member a body its owner signed; what a failed re-signing leaves never verifies, with or without. `AuthenticFirst`: with a key, no boundary is evaluated and no expiration, context or lineage decides before the signature is found right. `VerdictIsAtomic`: the outcome is that of all checks with one reading of the clock for the expiration and a value the boundary may evaluate to between begin and end, both of one moment where the boundary's value is (`Momentary`). `SealedVerifies`: options that fit the profile verify, with a boundary that is true however its atoms read the clock. `OneEditShows`: without a key, one edit brings no foreign payload or boundary past the digests. |
| `seal_boundary` | *violation*: a boundary that is false does not stop a bundle. |
| `seal_commitment` | *violation*: a commitment passed as the conformance program passes it does not verify. |
| `boundary_eval` | `StableIsExact`: where no atom changes under the evaluation, the result is the value defined bottom-up. `OneReadingIsAtomic`: with one atom about the time it is the value at some moment. `WindowsToTheTick`: age and window atoms against a reference that multiplies where the code divides. `AbsentFails`: an absent field passes no test but one that names null, and `not_expired`. `EvaluateReturns`. |
| `boundary_negation` | *violation*: any of `expired` and `not_expired` can be false. |
| `manifest_publish` | `RootsAreBacked`, `LogIsBacked`: what a run publishes in a second no other run has is consistent at every moment. `LastRunHeals`: a run that publishes alone leaves LATEST its own, whatever dead runs left. `SameRepoSameRoot`: outputs of earlier runs do not change the root. |
| `command_line` | `OutputsKept`: exit code 0 of `key generate` and `seal` means that their files are there, whole, until another run opens them. `FilesAreTransparent`: generate, seal and verify one after the other give the verdict the library functions give for a fresh pair, whatever crashed and overlapping runs left behind. `VerifiedWasSealed`: no file that is half-written, overwritten or of another pair makes `verify` accept what no `seal` made with the other half of that key. |

Every property of a passing run has a mutant of the code's model that violates
it under the same configuration. Deadlock is not checked: each of these programs
ends, a clock stops at its bound, and a finished system has no step.

`PROJECT.json` gives each hazard the properties that would catch it going wrong, or
says why none does.

## 5. Bounds

* **Lineage.** Three names, so that cycles of length one, two and three and
  chains of three exist. `MaxDepth` is 3 in `lineage_honest` and 4 in
  `lineage_mixed` and `lineage_sealed` (100 in the code): a loop that tests one
  number against one length behaves at 100 as it does at 3. `lineage_honest` has every way for a chain to
  end within, at and beyond the budget; four leaves room for the first repeated
  reference. Any number of files are put before the trace starts, `MaxWrites` =
  1 changes during it: one change is what it takes for the trace to see an old
  child and a new parent. The theorems have no bound.
* **Seal and verify.** Fifteen sealings, one for every profile, algorithm,
  expiration and for every refusal of `seal_bundle`; edits of each member to
  each class the pipeline tells apart; two edits (`MaxEdits`): the digests
  hold against one edit and not against two consistent ones, so two is where
  the difference shows. Two clock values are enough for "before" and "after"
  each reading. Thirteen verifications, among them every pair of key and
  context. A boundary that holds in one context, one that breaks when a time has passed, one that is true at each moment and an error between two. About 2.1 million states. The violation runs need no edits.
* **Walks.** Twenty-seven documents: one without parents, chains up to length
  three, the same parent named twice and by two children, an id that comes
  back along one line and along two, bundles without an id, parents that are missing or have
  the wrong digest, claims that are not the digest, a cycle of claims; parents in another algorithm than
  the bundle's, references that name the right, a wrong, an unknown algorithm or none, a
  document that has no digest. Every store that
  files such documents under an id. `MaxDepth` is 2 and the chains go one beyond it (the
  code has 16, 256 and 100); `MaxWrites` is 2, so that both parents of a bundle can
  change after it was read. `lineage_shared` has `MaxDepth` 0, Go's default of 100, so that the budget is not met first.
  About 51 thousand states.
* **Command line.** Four runs, each started with one of two to four command lines:
  two may generate, two seal, one verify, one inspect, so that every pair of
  commands overlaps and each that writes also with itself. Three files, `k`, `k.pub` and `b`; the command lines include one path
  for both keys, a derived path, keys that are printed, an unknown algorithm, a
  sealing that `seal_bundle` accepts and `verify_bundle` refuses, one file in two roles,
  inputs that are missing. At first the files are what a run killed between its two writes left: a
  private key and half a public one. One clock value: the time has no part in these
  properties. About 1.1 million states.
* **Boundary.** 29 specifications: every atom, alone, malformed and in
  nestings up to four; 20 contexts: absent, each type, two timestamps whose
  order as strings is not their order in time, a string that is no timestamp.
  Two ticks a second, six ticks, so that fractions and both borders of each
  window occur. Each evaluation may start at any tick. About 44 thousand states.
* **Manifest.** Two runs of one configuration (symmetric), two files and one content, one
  change of the repository, two seconds: both runs in one second, in two, one
  dying anywhere before, during or after the other. About 2.4 million states.
  A third run changes LATEST in no way two do not; the theorems cover any number.

## 6. Fairness

`FairSpec` of `LineageTrace` is `Spec /\ WF_vars(Trace)`, that of
`BoundaryEval` is `Spec /\ WF_vars(Step)`: one sequential, synchronous program
that runs on while it can. `FairSpec` of `LineageWalks` is `Spec /\ WF_vars(Walk)`:
three of the libraries are synchronous as well, and for the TypeScript core it says that
every `fetch` is answered, which is the caller's part, for the core has no
timeout of its own. Nothing is assumed of the other processes of the
directory, of the writers of the store or of the clock; in `lineage_mixed` no fairness says that a file
appears, in `boundary_eval` none that time passes. The other modules state
safety only and have no fairness. The violation runs are invariants.

## 7. What is proved

All theorems hold for every value of the constants under the named
assumptions of the modules (sets are disjoint from the values that stand for
"none", functions have their types, bounds are natural numbers).

**Lineage** (`LineageTrace_proofs`; `BundlesAssumption`, `TraceAssumption`).
`TypeCorrect`, `NoIdTwice` (`IdsDistinct`), `DepthBudget` (`BudgetKept`),
`HonestChains` (`HonestChainValidates`), `VerdictsMatch` (`VerdictMatchesWalk`),
`Implementation` (`ImplementsAncestorPath`). `IdsDistinct` and `BudgetKept` are not inductive:
the induction needs what each `pc` implies (`ControlInv`), above all that a
reference is resolved only with budget left and is the first parent of the last
bundle of the chain. For `HonestChains` one also needs that a file only holds
what may be put there (`FilesInv`) and that each link was made by reference
(`Linked`). The refinement maps `chain` to `path` and `result` to `verdict`;
reads that find nothing and the work of other processes are stutters. For `VerdictsMatch`
the chain is followed along the directory (`Followed`): it is the walk's path so far, and
each `pc` and each result says why the next step of the walk is what it is (`Reasons`); the
path exists because repeating a function does (`Repetition`), and it is simple as far as the
chain goes, because ids are distinct and files are named after them. `TraceBounded`
(`TraceAdvances`) is the safety half of termination: `StepsLeft` is a natural number of at
most 3 * `MaxDepth` + 2 that every step of the trace lowers and nothing else changes; that
`TraceReturns` follows under weak fairness is left to TLC.
`BundlesAssumption` keeps the stand-ins for "no id" and "no string" apart from names and from each
other.

**Walks** (`LineageWalks_proofs`; `ParentRefsAssumption`, `WalksAssumption`).
`TypeCorrect`, `WalksImplementAncestry` (`ImplementsAncestry`), `BudgetKept`
(`DepthBudget`), `CyclesAreReal` (`CycleIsReal`), `LibrariesAgree` (`AgreedVerdict`). The refinement maps the
set of bundles gone into (`found`) to `checked`. What has to be shown is that
"valid" is said only when no parent is open, and that needs an account of the
whole stack: each frame below the top stands at a reference the frame above it answers
(`LineInv`), what a frame has passed is answered (`PassedInv`), and a bundle gone into
is on the stack or finished (`FinishedInv`), so that the last return finds them all
finished. `MemoryInv` and `NamedInv` are for the release candidate, whose set of verified
ids must stand for bundles it went into. A change of the store disturbs none of
it: no part of the invariant mentions the store. The budget of TypeScript and Python is
tested against the number of ids in a call's set, not against the calls; `BudgetInv` therefore
says at every frame that the calls for bundles with an id are no more than the ids in its
set, which holds because a call is let in only with an id that is new to it.

`CycleIsReal` and `AgreedVerdict` speak of the ancestors of a bundle and of its height, which are
defined by recursion over the documents; both exist because a digest names only older
documents (`RankedRecursion`, with `Age` as the rank). `Descent` says that each call is for an ancestor of
all callers' bundles and that the ids in its set are ids of theirs, so an id met again is one that an ancestor
repeats. For `AgreedVerdict` the store is honest and unwritten (`Calm`), and two
invariants meet. Towards "valid": every reference of a bundle gone into is vouched
for, found under its id with its digest in a suitable algorithm, or is still ahead of some call (`VouchInv`), and what a call has
passed is low enough for the budget left at it (`HeightsInv`); at the end nothing is ahead, and
being vouched for passes from a bundle to all its ancestors. Away from every refusal
(`SoundInv`): a call's height and depth together stay within the height of the root, its
set has no more ids than there are calls, and Go comes by no reference twice (`TakenOnce`);
therefore no test of any library strikes (`NothingRefused`). That the release candidate skips
by id is harmless there because an honest store has one bundle for an id. Where one algorithm
is used throughout, every digest suits every library (`OneSuits`): mixed algorithms are the only
reason for the four to differ on that account. The theorem says nothing of a bundle that is
handed to Python besides the ancestors and has no digest; it is an exception there and nothing elsewhere.

**Command line** (`CommandLine_proofs`; `FormatAssumption`, `CommandsAssumption`).
`TypeCorrect`, `SuccessIsKept` (`OutputsKept`), `FilesAddNothing`
(`FilesAreTransparent`), `OnlySealedIsVerified` (`VerifiedWasSealed`). None of the
properties is inductive. The invariant says of every run where it stands (`Control`),
that what it has read could be read (`Reading`), that what it has written is there
(`Written`), which already in the middle of a run must hold for the files written so
far, and that what it has read of a finished run is what that run wrote (`Delivered`); and of all
runs together that two in one file mark each other (`Overlaps`), that a file belongs to
a run that names it (`Opened`), and that a bundle anywhere came out of `seal_bundle`
(`Bundles`). `Overlaps` is what makes `Written` hold when another run writes: it must
have had the file open, and then either it opened the file last or both have lost
`clean`. `Answered` reduces `verify` to `Verifications`, and lemmas of
`SealAndCheck_proofs` say that the verdict "verified" under a key means a good signature, at
whichever moments.

**Seal and verify** (`SealVerify_proofs`; `FormatAssumption`, `EditsAssumption`).
`Unforgeable` (`VerifiedIsIssued`), `TypeCorrect`, `AuthenticityFirst` (`AuthenticFirst`),
`AtomicVerdict` (`VerdictIsAtomic`), `RoundTrip` (`SealedVerifies`), `OneEditIsSeen`
(`OneEditShows`). `Inv` says that the document keeps its members, that its
signature is one that was made or none at all, that past the third check there is one, and that past
the seventh it has been found good. `AuthenticityFirst` needs the converse too: while the signature
is not good, the pipeline has not come past the seventh check, and what the first seven refuse
with is one of the outcomes it lists.

Of `Evaluate` it is assumed that an evaluation returns something, and all that it could
have returned in less time (`FormatAssumption`). For
`AtomicVerdict` the invariant (`OneMoment`) is that there is one moment since the beginning at
which every check passed so far passes, with the value the boundary had; and that this value is the
one of that moment, if evaluations have values of moments at all (`Momentary`, which `OneReading`
of `BoundaryEval_proofs` shows of specifications with one atom about the time). When the clock goes
on, nothing is to be shown, for the moment stays. Only the boundary depends on its value and only the
expiration on the clock (`Timeless`). The boundary is met before the expiration, so it may choose the
moment: the one its value is of, or now. The expiration passes at the moment because what has not
expired now had not expired then. If it is malformed it is so at every moment; if it has expired now,
the moment is now, with a value of now (`SettledNow`): either the expiration is then the first
check that fails, or the boundary fails as well, and both give `policy-denied`.

The last two theorems need not look at the pipeline again: `AtomicVerdict` lets them speak of
`Verdict`. For `RoundTrip` a bundle nobody touched is the one its options
describe (`OriginKept`), a lemma goes through the thirteen checks of it, and `Matching` demands that
the boundary cannot but be true between begin and end: a boundary true at every single moment is
not enough, as `boundary_negation` shows.
For `OneEditIsSeen` the invariant has two levels: before the first edit both sections are
signed ones with the digests of their contents (`Pristine`), after it a content nobody
signed has a digest of something else (`Betrayed`). `EditsAssumption` says what one edit
is: a member inside a section, or a whole section taken away. A section replaced by another with its own digest is two.

**Manifest** (`ManifestPublish_proofs`; `ManifestAssumption`). `TypeCorrect`,
`RootsBacked`, `LogBacked`, `LatestHealed`, `SameRoot`. The invariant has two
halves. `OwnProgress`: a run alone in its second has, at each step, the files that
step presumes. `AloneProgress`: the same of the run that publishes alone, in a
second it may share with the dead, and of LATEST. Neither implies the
other. `SameRoot` rests on an account of what a run has read so far as long as
nobody changes the repository.

**Boundary** (`BoundaryEval_proofs`; `BoundaryAssumption`, `DocumentAssumption`). `TypeCorrect` (the stack is
a path of waiting calls, `PathInv`), `StableEvaluation` (`StableIsExact`), `OneReading`
(`OneReadingIsAtomic`), `Windows` (`WindowsToTheTick`) and `AbsentField` (`AbsentFails`). The value of a specification is defined by a recursive function over its
atoms, which exists because a document is nested finitely (`RankedRecursion`, with `Nesting` as the rank).
`ExactInv` is the invariant of the first: the operands a waiting call has
gone through are all neutral, and what was returned last is the value of the atom
it was returned for. It is stated for every moment at which the atoms about the
time are what they were since the start; when the clock goes on, there are only fewer
such moments, so `Tick` disturbs nothing. `OneReading` needs the document to be a tree:
as long as the one atom about the time is ahead of the walk (`AheadOf`), every moment is as good as another for what has
been computed; when it is read, the moment is chosen, and since it stands in one
place it is never met again (`AtomicInv`). `Windows` and `AbsentField` are about the atoms
themselves, which the walk and its reference value share: a specification that is one field atom is evaluated in
one step (`LeafInv`), and `SecondsBorders` says where truncated division puts the borders of a window.

**Induction** (`RecursionTheorems`). The library's induction theorems take an operator as a
parameter, which the installed provers cannot instantiate. Induction is therefore stated
of sets: a set of numbers has a least element, because its initial intervals are finite sets and
inclusion among finite sets is well-founded. From that follow `Repetition` (a function can be
repeated along the numbers) and `RankedRecursion` (an equation that looks only at smaller ranks has
a solution), which the theorems above cite.

**Only model-checked.** `TraceReturns`, `WalkReturns` and `EvaluateReturns`: liveness is
out of the prover's reach (for the trace, `TraceBounded` proves the bound it rests on).
Every other property of a passing run is a theorem.

## 8. Where code and documents disagree

Each of the five is a violation run; `findings` in `PROJECT.json` quotes the
lines.

1. `SPEC.md` 16.3 promises cycles are detected by parent references. The code
   records ids, and `seal_bundle` writes none: a cycle of sealed bundles runs
   until the budget ends it.
2. `SPEC.md` 11.10 promises `out-of-bounds` for a boundary that is false.
   `verify_bundle` looks only at errors of `boundary::evaluate`.
3. The conformance program commits to a context by hexadecimal text;
   `seal_bundle` encodes it a second time, so the bundle it expects to verify
   does not.
4. `SPEC.md` 12.4 speaks of *the* reference time. Each atom reads the clock.
5. `SPEC.md` 16.3 has `lineage-invalid` returned when a cycle is detected. The Go
   library keeps one map of visited references for all branches, so that a lineage without a
   cycle in which two bundles have one parent is called one. TypeScript and Python
   copy the set for every branch and accept it.

Met while modelling, modelled as the code has it, and without a run of their own
because one look at one line settles them:

* a missing field is null to most atoms, false in `SPEC.md:559-561`: `equals` and `in` hold of it when
  they name null, `not_expired` holds, `range`, `before` and `after` are errors (`AbsentFails` states what is left);
* a timestamp that does not parse is an error, false in `SPEC.md:569-570`;
* `before`, `after` and `within` compare characters (`boundary.rs:350`),
  timestamps in `SPEC.md:567-570`;
* `within_last` and `within_next` drop fractions of a second, so that a value
  less than a second on the wrong side counts at either end of the window (`SPEC.md:578-581`); `age_gt`
  holds a second late (`WindowsToTheTick` states the borders);
* a boundary with two atoms about the time may evaluate, within one `verify`, to a value or an error it has
  at no moment (`boundary.rs:175`, 198, 219, 240, 263);
* a chain of exactly `max_depth` bundles is refused (`lineage.rs:80`);
* `verify_bundle` never reads the parents it is given (`SPEC.md:485-488`);
* two runs of the manifest tool in one second write the same files;
* the release candidate compares the digest a parent's seal claims, where
  `SPEC.md:659-661` has it computed; a bundle it has verified by a short path
  may lie beyond the budget by a long one;
* Python looks a parent up under its digest in the algorithm of the verified bundle (`verify.py:379`), so an
  ancestor named in another is "not found" although it is there; TypeScript and Go accept it, and the release
  candidate wants the parent's own algorithm;
* a reference without `digest_alg` is refused in TypeScript, SHA-256 in Python (`lineage.py:72`) and in the parent's
  algorithm in Go (`lineage.go:75`), required in `SPEC.md:181`;
* a bundle without canonical form among the parents given is an exception in Python before the walk begins, whether
  or not a reference names it;
* two overlapping runs of `key generate` on one path can both report success and leave
  the private key of one beside the public key of the other (`key.rs:29`, `key.rs:47`);
* `key generate` with one path for both keys keeps only the public key, and reports success;
* `seal` without a boundary under the default profile `sealed` makes a bundle that
  `verify` refuses;
* a bundle that is no JSON gives exit code 1, `malformed` in `SPEC.md:410-414`;
* `inspect` panics on a long string with a character across its byte 80.

## 9. What is not modelled

Components with status `not_modelled` and the reason are in `PROJECT.json`. In
short: the pages, the services and what the other languages have beside their
lineage walk are planned (section 2);
cryptographic primitives and the byte encoding are taken as ideal, since no
property here is about their bits; printing and argument parsing have no state;
the conformance program calls the modelled functions one vector after another and
keeps two counters; tests, wrappers, vectors, evidence and
documents are data; `go/vendor` is third-party code. Of the modelled parts, the
text and DOT output of the lineage command, messages, and the computation of
size and nesting of a document are left out.

Of the walks, the text of the reasons and the depth that is reported with them are left out,
and the walk of the page (its lines 1554-1598). Of the command line: standard input and output as data, a read
that sees a file while another run is between truncation and writing in more ways than
"not whole", payload and context files that change meanwhile (they are either usable or
not), a file cut only of its last newline, and a failing `println!` outside the
writing phase.
