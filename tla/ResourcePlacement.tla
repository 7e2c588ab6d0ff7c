--------------------------- MODULE ResourcePlacement ---------------------------
(***************************************************************************)
(* rs_simple_request and rss_test of rs_simple.c with the queries of       *)
(* rs_query_base.c, driven by slun_row_replace_fix of segment_lun.c: the   *)
(* devices of a row that are lost are replaced by resources that match the *)
(* row's query, one request after another, each with the devices at hand   *)
(* as its fixed part and without the resources whose allocation failed.    *)
(* Keys are exact and values are those of RAttr; lists that restrict the   *)
(* choice when space is balanced (pick_from) are left out.                 *)
(***************************************************************************)
EXTENDS Integers, Sequences, SequencesExt, FiniteSetsExt

CONSTANTS RSlots,       \* random_array: the table of resources, a sequence
          RAttr,        \* the attributes of the resources
          RQueries,     \* queries of the segment
          RLocals,      \* queries of a lost device ("migrate"); <<>> for none
          RRows,        \* the devices of a row: resources, Lost, or resources not in the table
          Lost, NoVal,
          MaxRounds     \* requests of one repair

VARIABLE place
plvars == <<place>>

InTable == Range(RSlots)

(* rs_query_base_add: one element.  any is RSQ_BASE_KV_ANY. *)
KvEle(key, val, any, uniq, one) ==
  [op |-> "kv", key |-> key, val |-> val, any |-> any, uniq |-> uniq, one |-> one]
OpEle(op) == [op |-> op, key |-> "rid", val |-> NoVal, any |-> FALSE, uniq |-> FALSE, one |-> FALSE]

(* rs_query_count *)
CountUnique(q) == Quantify(DOMAIN q, LAMBDA x : q[x].uniq)
CountPickone(q) == Quantify(DOMAIN q, LAMBDA x : q[x].one)

Devs(row) == 0 .. Len(row) - 1
NoValues(row) == [d \in Devs(row) |-> NoVal]

(* rss_test: i requests were seen before; uniq holds their values. *)
RssTest_AnyRow(e, r, i, uniq, one) ==
  /\ e.any \/ RAttr[r][e.key] = e.val
  /\ e.uniq => i = 0 \/ uniq[i - 1] # RAttr[r][e.key]
  /\ (e.one /\ ~e.uniq /\ i > 0 /\ one # NoVal) => RAttr[r][e.key] = one

RssTest(e, r, i, uniq, one) ==
  /\ e.any \/ RAttr[r][e.key] = e.val
  /\ e.uniq => \A j \in 0 .. i - 1 : uniq[j] # RAttr[r][e.key]
  /\ (e.one /\ ~e.uniq /\ i > 0 /\ one # NoVal) => RAttr[r][e.key] = one

(* The stack machine: the postfix query is run over a stack of Booleans;   *)
(* an element that matches leaves its value behind even if the query as a  *)
(* whole fails.  The or of two results is the or of their addresses.       *)
RunQuery(q, r, i, kv) ==
  FoldLeft(LAMBDA a, x :
      LET e   == q[x]
          hit == RssTest(e, r, i, a.uniq[x], a.one[x])
          top == Head(a.stk)
      IN CASE e.op = "kv" ->
                [stk  |-> <<hit>> \o a.stk,
                 uniq |-> IF hit /\ e.uniq THEN [a.uniq EXCEPT ![x][i] = RAttr[r][e.key]] ELSE a.uniq,
                 one  |-> IF hit /\ e.one THEN [a.one EXCEPT ![x] = RAttr[r][e.key]] ELSE a.one]
           [] e.op = "not" -> [a EXCEPT !.stk = <<~top>> \o Tail(@)]
           [] e.op = "and" -> [a EXCEPT !.stk = <<top /\ @[2]>> \o SubSeq(@, 3, Len(@))]
           [] e.op = "or"  -> [a EXCEPT !.stk = <<TRUE>> \o SubSeq(@, 3, Len(@))],
    kv, [x \in DOMAIN q |-> x])

(* The local query goes on with the stack of the global one and values of  *)
(* its own; the top of the stack, its result if there is one, decides.     *)
RunBoth(r, i, kv) ==
  LET g == RunQuery(place.query, r, i, [stk |-> <<>>, uniq |-> kv.uniq, one |-> kv.one])
      l == RunQuery(place.local, r, i, [stk  |-> g.stk,
                                        uniq |-> [x \in DOMAIN place.local |-> NoValues(place.row)],
                                        one  |-> [x \in DOMAIN place.local |-> NoVal]])
  IN [ok |-> Head(l.stk), uniq |-> g.uniq, one |-> g.one]

-----------------------------------------------------------------------------
(* One repair.  hints: the resource of each fixed device, then the places  *)
(* for the new ones; row: the devices themselves.                          *)
PlaceInit == \E row \in RRows, q \in RQueries, l \in RLocals, up \in SUBSET InTable :
  place = [pc |-> "request", row |-> row, query |-> q, local |-> l, up |-> up, excl |-> {}, i |-> 0, fixed |-> <<>>, uniq |-> <<>>, one |-> <<>>, picks |-> <<>>,
           found |-> FALSE, code |-> "none", rounds |-> 0]

(* slun_row_replace_fix puts the devices at hand first; the request starts *)
(* with empty values and no result.                                        *)
RequestStart ==
  LET good == SelectSeq(place.row, LAMBDA r : r # Lost) IN
  /\ place.pc = "request"
  /\ place' = [place EXCEPT !.pc = "pick", !.i = 0, !.fixed = good, !.found = FALSE, !.code = "none",
                 !.uniq = [x \in DOMAIN place.query |-> NoValues(place.row)],
                 !.one = [x \in DOMAIN place.query |-> NoVal], !.picks = <<>>]

(* A local query may not hold both kinds of memory: the device gets none.  *)
BadLocal == CountUnique(place.local) # 0 /\ CountPickone(place.local) # 0
PickInvalid ==
  /\ place.pc = "pick" /\ place.i < Len(place.row) /\ BadLocal
  /\ place' = [place EXCEPT !.i = @ + 1, !.found = FALSE, !.code = "invalid_local"]

(* A device of the fixed part is tried itself; if it is not in the table   *)
(* or does not match, the request goes on (ignore_fixed_err).              *)
PickFixed ==
  LET r == place.fixed[place.i + 1]
      t == RunBoth(r, place.i, place)
  IN /\ place.pc = "pick" /\ place.i < Len(place.fixed) /\ ~BadLocal
     /\ place' = IF r \notin InTable THEN [place EXCEPT !.i = @ + 1, !.found = FALSE]
                 ELSE [place EXCEPT !.i = @ + 1, !.found = t.ok, !.uniq = t.uniq, !.one = t.one,
                                    !.code = IF t.ok THEN @ ELSE "match_fail"]

(* The other devices: the table is scanned from a random slot for the      *)
(* first resource that is up and matches.                                  *)
ScanFrom(off) ==
  LET n == Len(RSlots) IN
  FoldLeft(LAMBDA a, j :
      LET r == RSlots[((off + j) % n) + 1]
          t == RunBoth(r, place.i, a)
      IN IF a.res # Lost \/ r \notin place.up THEN a
         ELSE [res |-> IF t.ok THEN r ELSE Lost, uniq |-> t.uniq, one |-> t.one],
    [res |-> Lost, uniq |-> place.uniq, one |-> place.one], [x \in 1 .. n |-> x - 1])

PickScan == \E off \in 0 .. Len(RSlots) - 1 :
  LET s == ScanFrom(off) IN
  /\ place.pc = "pick" /\ Len(place.fixed) <= place.i /\ place.i < Len(place.row) /\ ~BadLocal
  /\ place' = IF s.res = Lost THEN [place EXCEPT !.pc = "answer", !.found = FALSE]
              ELSE [place EXCEPT !.i = @ + 1, !.found = TRUE, !.uniq = s.uniq, !.one = s.one,
                                 !.picks = Append(@, s.res)]

(* The request fails if the last device got none; an earlier error hides   *)
(* that there were not enough.                                             *)
RequestEnd ==
  /\ place.pc = "pick" /\ place.i = Len(place.row)
  /\ place' = [place EXCEPT !.pc = "answer"]

(* slun_row_replace_fix: allocations that failed, or were not made as the  *)
(* request failed, exclude their resource from the next round.             *)
Without(q, bad) ==
  FoldLeft(LAMBDA a, r : a \o <<KvEle("rid", r, FALSE, FALSE, FALSE), OpEle("not"), OpEle("and")>>,
           q, SetToSeq(bad))
(* The first device that is lost takes the last of the picks, and so on. *)
Filled(row, got) ==
  LET gaps == SelectSeq([d \in 1 .. Len(row) |-> d], LAMBDA d : row[d] = Lost)
  IN [d \in 1 .. Len(row) |-> IF row[d] # Lost THEN row[d]
                              ELSE LET x == CHOOSE x \in DOMAIN gaps : gaps[x] = d
                                   IN got[Len(gaps) + 1 - x]]

Process == \E bad \in SUBSET Range(place.picks) :
  LET got   == [x \in 1 .. Len(place.picks) |-> IF place.picks[x] \in bad THEN Lost ELSE place.picks[x]]
      row   == IF place.found THEN Filled(place.row, got) ELSE place.row
      wrong == IF place.found THEN bad ELSE Range(place.picks)
  IN /\ place.pc = "answer" /\ (place.found \/ bad = {})
     /\ place' = IF ~place.found /\ place.code = "none" THEN [place EXCEPT !.pc = "short"]
                 ELSE [place EXCEPT !.row = row, !.query = Without(@, wrong), !.excl = @ \cup wrong,
                         !.rounds = @ + 1, !.picks = <<>>, !.uniq = <<>>, !.one = <<>>,
                         !.pc = IF Lost \notin Range(row) THEN "done"
                                ELSE IF place.rounds + 1 = MaxRounds THEN "short" ELSE "request"]

PlaceNext == RequestStart \/ PickInvalid \/ PickFixed \/ PickScan \/ RequestEnd \/ Process

-----------------------------------------------------------------------------
(* What a query means: the elements of a conjunction, negated or not. *)
Wants(q, r) == \A x \in DOMAIN q : q[x].op = "kv" /\ ~q[x].any =>
                 ((x < Len(q) /\ q[x + 1].op = "not") # (RAttr[r][q[x].key] = q[x].val))

(* A device put into a row is up, matches the segment's query, is none     *)
(* whose allocation failed before, and shares a value the query wants      *)
(* unique with no other device of the row that the table knows, be it an   *)
(* old one, one of this request or of an earlier round; unless the query   *)
(* has an or, or the local query leaves the global one on the stack        *)
(* (rs_simple_request, rss_test, slun_row_replace_fix).                    *)
PlacementSound ==
  [][\A d \in DOMAIN place.row :
       LET q == place.query
           r == place'.row[d]
       IN place.row[d] = Lost /\ r # Lost =>
            \/ \E x \in DOMAIN q : q[x].op = "or"
            \/ place.local # <<>> /\ Last(place.local).op # "and"
            \/ /\ r \in place.up \ place.excl /\ Wants(q, r)
               /\ \A x \in DOMAIN q, b \in DOMAIN place.row \ {d} :
                    q[x].uniq /\ place'.row[b] \in InTable =>
                      RAttr[place'.row[b]][q[x].key] # RAttr[r][q[x].key]]_plvars
=============================================================================
