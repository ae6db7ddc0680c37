-------------------------- MODULE MCParameterServer --------------------------
EXTENDS ParameterServer
MCOrder == <<"A", "B">>
\* Two text files: a2 has nothing.
MCText == [a1 |-> [A |-> NoValue, B |-> 3], a2 |-> [A |-> NoValue, B |-> NoValue]]
\* An input file with two cycles of A and one of B, which one run lacks.
MCFile == [cycles |-> [A |-> <<1, 2>>, B |-> <<1>>],
           run |-> (11 :> [A |-> 1, B |-> 1] @@ 12 :> [A |-> 2, B |-> 0])]
MCStocked == [f1 |-> MCFile, f2 |-> EmptyFile]
\* The run of the devices lacks B.
MCDevicesShort == [f1 |-> [MCFile EXCEPT !.run = (11 :> [A |-> 1, B |-> 0] @@ 12 :> [A |-> 2, B |-> 1])],
                   f2 |-> EmptyFile]
MCSetups ==
    {\* Two processors that change from run to run.
     [processors |-> {"c1", "c2"}, devices |-> {}, inputs |-> <<"f1", "a1">>,
      stocked |-> MCStocked, savesUpdates |-> FALSE, maxMessages |-> 3],
     \* Two devices that send their containers.
     [processors |-> {}, devices |-> {"c1", "c2"}, inputs |-> <<NoFile, NoFile>>,
      stocked |-> MCStocked, savesUpdates |-> TRUE, maxMessages |-> 3],
     \* Both, and a container that is in no input for the run of the device.
     [processors |-> {"c1"}, devices |-> {"c2"}, inputs |-> <<"f1", "a2">>,
      stocked |-> MCDevicesShort, savesUpdates |-> TRUE, maxMessages |-> 2]}
=============================================================================
