------------------------------ MODULE MCRunAna ------------------------------
(***************************************************************************)
(* Instances of RunAna: two files of three and two events, friends of two  *)
(* layouts, and two signals that are mixed into a background.              *)
(***************************************************************************)
EXTENDS RunAna

Ev(id, run) == [id |-> id, run |-> run, t |-> 10 * id]
TwoRuns == <<<<Ev(1, 1), Ev(2, 1), Ev(3, 2)>>, <<Ev(4, 2), Ev(5, 1)>>>>

Digis(first, last) ==
    [layout |-> "digis", events |-> [n \in 1..(last - first + 1) |-> first + n - 1]]
Hits(first, last) == [Digis(first, last) EXCEPT !.layout = "hits"]
MCFriends == <<Digis(1, 3), Digis(4, 5), Digis(1, 3), Hits(1, 1), Hits(2, 5), Hits(1, 1)>>

Files(files, friends, method, start, end, entries, deltas) ==
    [source |-> "FairFileSource", files |-> files, friends |-> friends, method |-> method,
     start |-> start, end |-> end, entries |-> entries, deltas |-> deltas,
     static |-> FALSE, beam |-> -1, gap |-> 0,
     signals |-> <<>>, byTime |-> FALSE, meanTime |-> 0, runFrom |-> 0]

MCFileSetups ==
    {Files(TwoRuns, MCFriends, "Run", a[1], a[2], <<>>, d) :
        a \in {<<0, 0>>, <<2, 0>>, <<6, 0>>, <<1, 4>>, <<3, 9>>, <<1, -1>>, <<4, 2>>},
        d \in {{}, {1, 3}}}
    \cup {[Files(TwoRuns, <<>>, "Run", 0, 0, <<>>, {1, 2}) EXCEPT !.beam = 3, !.gap = 2],
          [Files(TwoRuns, <<>>, "Run", 0, 0, <<>>, {}) EXCEPT !.static = TRUE]}
    \cup {Files(TwoRuns, MCFriends, "RunEventReco", 0, a, <<>>, d) :
            a \in {0, 2, 7}, d \in {{}, {1, 3}}}
    \cup {Files(TwoRuns, MCFriends, method, 0, 0, <<2, 2, 0, 4, 5>>, {1, 3}) :
            method \in {"RunSingleEntry", "RunMQ"}}
    \cup {[Files(TwoRuns, <<>>, "RunEventReco", 0, 0, <<>>, {}) EXCEPT !.static = TRUE]}

Background == <<<<Ev(1, 1), Ev(2, 1)>>, <<Ev(3, 1), Ev(4, 1)>>>>
First == [background |-> 3, events |-> <<Ev(11, 2), Ev(12, 2)>>]
Second == [background |-> 1, events |-> <<Ev(21, 3), Ev(22, 3), Ev(23, 3)>>]

MCMixedSetups ==
    {[Files(Background, <<>>, "Run", 0, a, <<>>, d) EXCEPT
        !.source = "FairMixedSource", !.signals = s, !.byTime = FALSE, !.runFrom = r] :
        a \in {0, 3}, d \in {{}, {5}}, s \in {<<First>>, <<First, Second>>}, r \in {0, 1}}
    \cup {[Files(Background, <<>>, "Run", 0, 3, <<>>, {1, 3}) EXCEPT
            !.source = "FairMixedSource", !.signals = <<First>>]}
    \cup
    {[Files(Background, <<>>, method, 0, 4, <<>>, {2}) EXCEPT
        !.source = "FairMixedSource", !.signals = <<First, Second>>, !.byTime = TRUE,
        !.meanTime = 1, !.beam = b, !.gap = 2] : b \in {-1, 3}, method \in {"Run", "RunEventReco"}}

MCSetups == MCFileSetups \cup MCMixedSetups
=============================================================================
