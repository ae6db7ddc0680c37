---------------------------- MODULE MCRunOnline ----------------------------
(***************************************************************************)
(* Instances of RunOnline: two unpackers, the second of which also takes   *)
(* the first one's subevents, and three tasks, one below another.          *)
(***************************************************************************)
EXTENDS RunOnline

MCParent == [t \in {"hits", "tracks", "monitor"} |-> IF t = "tracks" THEN "hits" ELSE "root"]

MCUnpackers == <<[name |-> "strips", kinds |-> {10}], [name |-> "pads", kinds |-> {10, 20}]>>

Good(kind) == [kind |-> kind, bad |-> {}]
Ev(id, run, subs) == [id |-> id, run |-> run, subs |-> subs]
File(events) == [opens |-> TRUE, events |-> events]
Missing == [opens |-> FALSE, events |-> <<>>]

Two == Ev(1, 1, <<Good(10), Good(20)>>)
NewRunHalf == Ev(2, 2, <<[kind |-> 10, bad |-> {2}], Good(20)>>)
Unknown == Ev(3, 2, <<Good(30)>>)
Partly == Ev(4, 2, <<Good(10), Good(30)>>)
Back == Ev(5, 1, <<Good(20)>>)
Fresh == Ev(7, 2, <<Good(20), Good(10)>>)
Noise == Ev(6, 2, <<Good(30)>>)

MCFiles ==
    {<<File(<<Two, NewRunHalf>>), File(<<Unknown, Partly, Back>>)>>,
     <<File(<<Noise>>), File(<<Two, Unknown>>), File(<<NewRunHalf, Partly>>)>>,
     <<File(<<Two>>), Missing, File(<<Back>>)>>,
     <<File(<<Two>>)>>,
     <<Missing, File(<<Back>>)>>}
MCStream == {<<File(<<Two, NewRunHalf, Unknown, Partly, Fresh, Back>>)>>,
             <<File(<<Noise, Two, Partly, Fresh, Unknown, Back>>)>>}
MCSetups ==
    {[sourceType |-> "FairLmdSource", files |-> f, evStart |-> 0, evEnd |-> 3,
      static |-> FALSE, autoFinish |-> FALSE, maxRuns |-> 2] : f \in MCFiles}
    \cup
    {[sourceType |-> "FairLmdSource", files |-> <<File(<<Two, NewRunHalf, Back>>)>>, evStart |-> 0,
      evEnd |-> 3, static |-> TRUE, autoFinish |-> TRUE, maxRuns |-> 1]}
    \cup
    {[sourceType |-> "FairMbsStreamSource", files |-> f, evStart |-> -1, evEnd |-> 3,
      static |-> FALSE, autoFinish |-> TRUE, maxRuns |-> 1] : f \in MCStream}
=============================================================================
