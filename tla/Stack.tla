------------------------------- MODULE Stack -------------------------------
(***************************************************************************)
(* The operand stack (stack.h, over the entries of eval_types.h).  Values  *)
(* and control markers share one vector: a block leaves a label marker, an *)
(* activation a function marker, below the operands it works on.           *)
(***************************************************************************)
EXTENDS Naturals, Sequences, FiniteSets

CONSTANT Val   \* the payload bits the properties tell apart

ValType == {"i32", "i64", "f32", "f64"}
AnyType == ValType \cup {"unknown"}   \* VALTYPE_UNKNOWN: all bytes zero

Value(t, v) == [marker |-> "value", valtype |-> t, val |-> v]
LabelMarker == [marker |-> "label", valtype |-> "unknown", val |-> 0]
FuncMarker  == [marker |-> "function", valtype |-> "unknown", val |-> 0]

Values  == [marker : {"value"}, valtype : AnyType, val : Val]
Entries == Values \cup {LabelMarker, FuncMarker}

IsMarker(e) == e.marker # "value"

----------------------------------------------------------------------------
(* Popping and peeking values *)

\* The n topmost entries, and what is left when they are popped, markers or not.
Kept(s, n)    == SubSeq(s, Len(s) - n + 1, Len(s))
Dropped(s, n) == SubSeq(s, 1, Len(s) - n)

\* The entry a pop returns, for the k-th pop in a row.
Popped(s, k) == s[Len(s) - k + 1]

\* The pops of types ts, the last of them first, all pass the assertions of
\* pop_generic_assert_type and its kin.
Holds(s, ts) ==
  /\ Len(s) >= Len(ts)
  /\ \A k \in 1..Len(ts) : LET e == s[Len(s) - Len(ts) + k]
                           IN  ~IsMarker(e) /\ e.valtype = ts[k]

\* Otherwise either an assertion aborts the process, or the stack runs empty
\* first and the vector raises.
Mismatch(s, ts) ==
  \E k \in 1..Len(ts) : /\ k <= Len(s)
                        /\ LET e == Popped(s, k)
                           IN  IsMarker(e) \/ e.valtype # ts[Len(ts) - k + 1]

----------------------------------------------------------------------------
(* Popping down to a marker *)

Markers(s) == {p \in 1..Len(s) : IsMarker(s[p])}

MarkerCount(s) == Cardinality(Markers(s))

\* The position of the k-th marker, counted from the bottom.
MarkerPos(s, k) ==
  CHOOSE p \in Markers(s) : Cardinality({q \in Markers(s) : q <= p}) = k

\* One marker too few, as if the count stopped before the target.
BelowMarkersButOne(s, n) ==
  IF n = 1 THEN s ELSE SubSeq(s, 1, MarkerPos(s, MarkerCount(s) - n + 2) - 1)

\* while (!pop_marker_label_or_func(stack)), n times: the n topmost markers go,
\* of either kind, with everything above the lowest of them.
BelowMarkers(s, n) == SubSeq(s, 1, MarkerPos(s, MarkerCount(s) - n + 1) - 1)

\* while (!pop_marker_func(stack)) and while (!pop_marker_label(stack)): down to
\* the topmost marker of that kind, through markers of the other kind.
Topmost(s, m) == CHOOSE p \in 1..Len(s) : /\ s[p].marker = m
                                          /\ \A q \in p + 1..Len(s) : s[q].marker # m
HasMarker(s, m)    == \E p \in 1..Len(s) : s[p].marker = m
BelowTopmost(s, m) == SubSeq(s, 1, Topmost(s, m) - 1)
=============================================================================
