------------------------------ MODULE MCSegments -------------------------------
(* The LUN, linear and jerasure segments, the partial pages of the cache   *)
(* segment and the copy between segments, each on its own: a behaviour is  *)
(* one of them at work.                                                    *)
EXTENDS SegmentLun, SegmentLinear, SegmentJerasure, SegmentCopy, CachePpages

VARIABLE part
segvars == <<lvars, nvars, jvars, cvars, ppvars, part>>

LunIovs == {<< <<3, 9>> >>, << <<6, 6>>, <<0, 1>> >>}
LunTruncs == {3, -9}
LunPlacements == {[i \in LunDevs |-> IF i = 0 THEN "shuffle" ELSE "soft"]}
LunFlags == {{"repair"}, {"repair", "force", "write"}}
LinIovs == {<< <<1, 4>> >>, << <<4, 4>>, <<0, 1>> >>, << <<2, 3>> >>}
LinTruncs == {2, 5, -6}
JeModes == {<<"full", {}>>, <<"quick", {"repair"}>>, <<"quick", {"repair", "force", "fix"}>>,
            <<"scan", {"repair", "force"}>>}
JeFailSets == {{}, {0, 4}, {1, 2, 3}}
SmallRanges == {<<0, 0>>, <<2, 2>>, <<1, 4>>, <<5, 8>>, <<1, 7>>}

Sym == Permutations(Data) \cup Permutations(LSlots) \cup Permutations(NCalls) \cup Permutations(PpCalls)

(* The parts not at work keep the first of their initial states. *)
MCInit == /\ LunInit /\ LinInit /\ JeInit /\ CopyInit /\ PpInit
          /\ part \in {"lun", "linear", "jerasure", "copy", "ppages"}
          /\ part # "lun" => ltotal = 0
          /\ part # "linear" => ntotal = 0
          /\ part # "jerasure" => jmay = [s \in Stripes |-> {Zero}]
          /\ part # "copy" => csrc = <<>> /\ cdest = <<>>
          /\ part # "ppages" => ptotal = 0
MCNext == \/ part = "lun" /\ LunNext /\ UNCHANGED <<nvars, jvars, cvars, ppvars, part>>
          \/ part = "linear" /\ LinNext /\ UNCHANGED <<lvars, jvars, cvars, ppvars, part>>
          \/ part = "jerasure" /\ JeNext /\ UNCHANGED <<lvars, nvars, cvars, ppvars, part>>
          \/ part = "copy" /\ CopyNext /\ UNCHANGED <<lvars, nvars, jvars, ppvars, part>>
          \/ part = "ppages" /\ PpNext /\ UNCHANGED <<lvars, nvars, jvars, cvars, part>>
MCSpec == MCInit /\ [][MCNext]_segvars
=============================================================================
