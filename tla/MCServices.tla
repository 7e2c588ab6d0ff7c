------------------------------ MODULE MCServices -------------------------------
(* What the clients of the services do: follow the table of resources,     *)
(* place devices by it, and name files.  An instance works on one of them. *)
EXTENDS ResourceService, ResourcePlacement, LioNamespace

CONSTANTS r1, r2, r3, r4, gone

VARIABLE part
allvars == <<rvars, plvars, nsvars, part>>

PSlots == <<r1, r2, r3, r4>>
PAttr == [r \in {r1, r2, r3, r4} |->
            [rid |-> r, site |-> IF r \in {r1, r2} THEN "a" ELSE IF r = r3 THEN "b" ELSE "c",
             kind |-> IF r \in {r1, r3} THEN "disk" ELSE "tape"]]
USite == KvEle("site", NoVal, TRUE, TRUE, FALSE)
URid == KvEle("rid", NoVal, TRUE, TRUE, FALSE)
OneKind == KvEle("kind", NoVal, TRUE, FALSE, TRUE)
Disk == KvEle("kind", "disk", FALSE, FALSE, FALSE)
PQueries == {<<USite>>, <<Disk, URid, OpEle("and")>>, <<OneKind, URid, OpEle("and")>>,
             <<USite, Disk, OpEle("or")>>}
PLocals == {<<>>, <<Disk, OpEle("and")>>, <<Disk>>, <<URid, OneKind, OpEle("and"), OpEle("and")>>}
PRows == {<<Lost, r1, Lost>>, <<Lost, Lost, gone>>, <<r1, r2, Lost>>}

(* The parts not at work keep one of their initial states. *)
MCInit == /\ RsInit /\ PlaceInit /\ NsInit /\ part \in {"table", "placement", "names"}
          /\ part # "placement" => /\ place.row = <<r1, r2, Lost>> /\ place.up = {}
                                   /\ place.query = <<USite>> /\ place.local = <<>>
          /\ part # "names" => data = {} /\ hard /\ \A n \in Names : ent[n] = 0
MCNext == \/ part = "table" /\ RsNext /\ UNCHANGED <<plvars, nsvars, part>>
          \/ part = "placement" /\ PlaceNext /\ UNCHANGED <<rvars, nsvars, part>>
          \/ part = "names" /\ NsNext /\ UNCHANGED <<rvars, plvars, part>>
MCSpec == MCInit /\ [][MCNext]_allvars /\ RsFairness
=============================================================================
