--------------------------- MODULE MCBoundaryEval ---------------------------
(* Instances of BoundaryEval for TLC: 32 atoms, each of them evaluated by    *)
(* itself in every context.                                                  *)
EXTENDS BoundaryEval, TLC

Timestamp(place, at) == [type |-> "string", ord |-> place, instant |-> at]
Float == [type |-> "float", ord |-> 1, instant |-> Unparsable]

(* "12:00+02:00" sorts after "11:00Z" and is before it. *)
Eleven == Timestamp(1, 3)
NoonEast == Timestamp(2, 1)
Gibberish == Timestamp(3, Unparsable)

Blank == [type |-> None, field |-> None, value |-> None, values |-> None, min |-> None,
          max |-> None, seconds |-> None, operands |-> None]
On(f, type) == [Blank EXCEPT !.field = f, !.type = type]
Group(type, operands) == [Blank EXCEPT !.type = type, !.operands = operands]

MCAtom ==
     ("expired" :> On("ts", "expired"))
  @@ ("not_expired" :> On("ts", "not_expired"))
  @@ ("age_lt" :> [On("ts", "age_lt") EXCEPT !.seconds = 1])
  @@ ("age_gt" :> [On("ts", "age_gt") EXCEPT !.seconds = 0])
  @@ ("within_last" :> [On("ts", "within_last") EXCEPT !.seconds = 1])
  @@ ("within_next" :> [On("ts", "within_next") EXCEPT !.seconds = 1])
  @@ ("no seconds" :> On("ts", "age_lt"))
  @@ ("equals" :> [On("num", "equals") EXCEPT !.value = Number(1)])
  @@ ("equals null" :> [On("num", "equals") EXCEPT !.value = Null])
  @@ ("no value" :> On("num", "equals"))
  @@ ("in" :> [On("num", "in") EXCEPT !.values = {Number(0), Number(2)}])
  @@ ("range" :> [On("num", "range") EXCEPT !.min = Number(2)])
  @@ ("no bounds" :> On("num", "range"))
  @@ ("present" :> On("num", "present"))
  @@ ("before" :> [On("ts", "before") EXCEPT !.value = Eleven])
  @@ ("after" :> [On("ts", "after") EXCEPT !.value = Eleven])
  @@ ("within" :> [On("ts", "within") EXCEPT !.min = Eleven, !.max = NoonEast])
  @@ ("unknown" :> On("ts", "unknown"))
  @@ ("either" :> Group("any", <<"expired", "not_expired">>))
  @@ ("expired 2" :> On("ts", "expired"))
  @@ ("not_expired 2" :> On("ts", "not_expired"))
  @@ ("both" :> Group("all", <<"not_expired 2", "expired 2">>))
  @@ ("never" :> Group("any", <<>>))
  @@ ("always" :> Group("all", <<>>))
  @@ ("no list" :> Group("all", None))
  @@ ("not recent" :> Group("not", <<"within_last">>))
  @@ ("not_expired 3" :> On("ts", "not_expired"))
  @@ ("guarded" :> Group("any", <<"not_expired 3", "unknown">>))
  @@ ("deep" :> Group("all", <<"equals", "guarded", "not recent">>))
  @@ ("one clock" :> Group("any", <<"in", "recent range", "before">>))
  @@ ("recent range" :> Group("all", <<"present", "age_gt", "range">>))
  @@ ("failing" :> Group("not", <<"one clock">>))

MCNodes == DOMAIN MCAtom

MCNesting ==
  [n \in MCNodes |-> CASE n = "failing" -> 3
                       [] n \in {"deep", "one clock"} -> 2
                       [] OTHER -> IF MCAtom[n].operands = None THEN 0 ELSE 1]

(* Copies of atoms that stand in two places need no evaluation of their own. *)
MCRoots == MCNodes \ {"expired 2", "not_expired 2", "not_expired 3"}

MCContexts ==
  {[ts |-> v, num |-> w] : v \in {Absent, Eleven, NoonEast, Gibberish, Number(1)},
                           w \in {Absent, Number(1), Number(2), Float}}
=============================================================================
