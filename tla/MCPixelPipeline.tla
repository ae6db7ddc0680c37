--------------------------- MODULE MCPixelPipeline ---------------------------
EXTENDS PixelPipeline
D(i, s, n) == [event |-> i, station |-> s, no |-> n]
\* The same entry number in two runs, a station without digis, one with two.
MCEvents == <<[run |-> 1, entry |-> 0, digis |-> {D(1, 1, 1), D(1, 2, 1), D(1, 2, 2), D(1, 3, 1)}],
              [run |-> 1, entry |-> 1, digis |-> {D(2, 1, 1), D(2, 2, 1)}],
              [run |-> 2, entry |-> 0, digis |-> {D(3, 3, 1)}]>>
MCShortEvents == <<MCEvents[2]>>
MCFeedsOne == [p \in {0} |-> {"p1", "p2"}]
MCFeedsStations == [p \in 0..2 |-> {<<"p1", "p2", "p3">>[p + 1]}]
MCStations(type, events) ==
    [events |-> events, nofFiles |-> 3, sourceType |-> type, maxIndex |-> -1,
     acks |-> FALSE, merging |-> TRUE, feeds |-> MCFeedsStations]
MCOneFile(maxIndex, acks) ==
    [events |-> MCEvents, nofFiles |-> 1, sourceType |-> "FairFileSource", maxIndex |-> maxIndex,
     acks |-> acks, merging |-> FALSE, feeds |-> MCFeedsOne]
MCMerging == {MCStations("PixelDigiBinSource", MCEvents)}
MCSetups == MCMerging \cup {MCStations("PixelDigiSource", MCShortEvents),
                           MCOneFile(-1, TRUE), MCOneFile(2, TRUE), MCOneFile(4, FALSE)}
=============================================================================
