---------------------------- MODULE ParameterJobs ----------------------------
(***************************************************************************)
(* Programs that use a FairRuntimeDb one after the other on the same       *)
(* parameter files, as the macros of the examples do: set the inputs,      *)
(* initialise the containers for a run, give some of them values of their  *)
(* own, set the output, save, go on with other runs, and end; or die at    *)
(* any moment.                                                             *)
(***************************************************************************)
EXTENDS RuntimeDb

CONSTANTS Lists,         \* sets of containers a program may ask for
          InputPairs,    \* first and second inputs a program may have
          Outputs,       \* files a program may write
          RunsReturn,    \* a run may come back after another one
          FillsRead,     \* a program may change a container read from the output
          MaxJobs,       \* bound: programs
          MaxCalls       \* bound: calls of a program to its data base

VARIABLES world,      \* the data base and the files
          alive,      \* a program is running
          jobs,       \* programs so far
          calls,      \* calls the running program has made
          early,      \* history: it has called saveOutput
          visited,    \* history: the runs initContainers was called for
          held,       \* history: what the containers held when the run was written
          stored      \* history: what the tables of a file were written for

vars == <<world, alive, jobs, calls, early, visited, held, stored>>

db == world.db
file == world.file

NothingHeld == [r \in RunIds |-> [n \in Names |-> [value |-> NoValue, kept |-> FALSE]]]

Init == /\ world = [db |-> NewDb, file |-> [f \in RootFiles |-> EmptyFile]]
        /\ alive = FALSE /\ jobs = 0 /\ calls = 0 /\ early = FALSE
        /\ visited = {}
        /\ held = NothingHeld
        /\ stored = [f \in RootFiles |-> NothingHeld]

\* The macro makes the data base, sets the inputs and asks for its containers.
StartJob ==
    /\ ~alive /\ jobs < MaxJobs
    /\ \E list \in Lists, in \in InputPairs :
         LET SetIf(d, k) == IF in[k] = NoFile THEN d ELSE SetInput(d, k, in[k])
         IN world' = [world EXCEPT !.db = [SetIf(SetIf(NewDb, 1), 2) EXCEPT !.list = list]]
    /\ alive' = TRUE /\ jobs' = jobs + 1 /\ calls' = 0 /\ early' = FALSE
    /\ visited' = {} /\ held' = NothingHeld
    /\ UNCHANGED stored

Call == alive /\ calls < MaxCalls /\ calls' = calls + 1

\* History: the current run's containers as writeContainers finds them.  One
\* that was neither read nor changed for the run need not be kept.
HeldNow(d) ==
    IF d.current = NoRun THEN held
    ELSE [held EXCEPT ![d.current] =
            [n \in Names |->
                IF n \notin d.list THEN @[n]
                ELSE [value |-> d.cont[n].value,
                      kept |-> @[n].kept \/ d.cont[n].in # Unread \/ d.cont[n].changed]]]

\* History: what the tables that saveOutput writes now stand for.
StoredNow(w, h) ==
    LET written == WriteContainers(w).db
    IN IF ~TableWritten(written) THEN stored
       ELSE [stored EXCEPT ![written.output] =
               [r \in RunIds |-> IF HasRun(written, r) THEN h[r] ELSE @[r]]]

\* FairRunAna::Init and Reinit: the containers for a run.
InitRun ==
    /\ Call
    /\ \E r \in RunIds :
         /\ RunsReturn \/ r \notin visited \ {db.current}
         /\ world' = InitContainers(world, r)
         /\ visited' = visited \cup {r}
         /\ held' = IF db.current \notin {NoRun, r} THEN HeldNow(db) ELSE held
    /\ UNCHANGED <<alive, jobs, early, stored>>

\* A detector or a macro fills a container for the run it is in, and says so
\* with setChanged and setInputVersion(runId, 1).
Fill ==
    /\ Call
    /\ db.current # NoRun
    /\ \E n \in db.list, v \in Values :
         /\ FillsRead \/ db.cont[n].in[1] \in RunIds \cup {-1}
         /\ world' = [world EXCEPT !.db.cont[n] =
                        [@ EXCEPT !.value = v, !.in[1] = db.current, !.changed = TRUE]]
    /\ UNCHANGED <<alive, jobs, early, visited, held, stored>>

\* Before or after Init, never after a change of the run.
ChooseOutput ==
    /\ Call
    /\ db.output = NoFile
    /\ Len(db.runs) <= 1
    /\ \E f \in Outputs : world' = [world EXCEPT !.db = SetOutput(db, f)]
    /\ UNCHANGED <<alive, jobs, early, visited, held, stored>>

Save ==
    /\ Call
    /\ db.output # NoFile
    /\ early' = TRUE
    /\ world' = SaveOutput(world)
    /\ held' = HeldNow(db)
    /\ stored' = StoredNow(world, HeldNow(db))
    /\ UNCHANGED <<alive, jobs, visited>>

\* The program ends: the data base is deleted.
End ==
    /\ alive
    /\ world' = [Destroy(world) EXCEPT !.db = NewDb]
    /\ stored' = LET d == CloseInput(CloseInput(db, 1), 2)
                 IN StoredNow([world EXCEPT !.db = d], HeldNow(db))
    /\ alive' = FALSE /\ early' = FALSE
    /\ visited' = {} /\ held' = NothingHeld
    /\ UNCHANGED <<jobs, calls>>

\* The program dies.  What it wrote is in the files.
Crash ==
    /\ alive
    /\ world' = [world EXCEPT !.db = NewDb]
    /\ alive' = FALSE /\ early' = FALSE
    /\ visited' = {} /\ held' = NothingHeld
    /\ UNCHANGED <<jobs, calls, stored>>

Next == StartJob \/ InitRun \/ Fill \/ ChooseOutput \/ Save \/ End \/ Crash

Spec == Init /\ [][Next]_vars

----------------------------------------------------------------------------
Containers == [value : Values \cup {NoValue},
               in : {<<a, b>> : a, b \in {-1} \cup 1..(MaxJobs * MaxCalls) \cup RunIds},
               static : BOOLEAN, changed : BOOLEAN]

TypeOK ==
    /\ \A n \in Names : db.cont[n] \in Containers
    /\ db.list \subseteq Names
    /\ \A r \in RunIds, n \in Names : db.vers[r][n].root \in Nat
    /\ db.current \in RunIds \cup {NoRun}

EntryValue(f, r, n) == KeyAt(file[f].cycles[n], file[f].run[r][n])

\* Whatever a table of a run says can be read, and is what the container held
\* in that run when the table was written, also after a crash and after other
\* programs added cycles and runs.
TablesTrue ==
    \A f \in RootFiles, r \in RunIds, n \in Names :
        file[f].run[r][n] > 0 => /\ file[f].cycles[n] # << >>
                                 /\ EntryValue(f, r, n) = stored[f][r][n].value

\* A container that a table was written for has a version in it.
TablesComplete ==
    \A f \in RootFiles, r \in RunIds, n \in Names :
        stored[f][r][n].kept => file[f].run[r][n] > 0

\* What the inputs hold for a container in a run: the version of the run's
\* table in the first input, else what the second input has.
TableValue(f, r, n) == IF file[f].run[r][n] > 0 THEN EntryValue(f, r, n) ELSE NoValue

FromInput(k, r, n) ==
    LET f == db.input[k]
    IN CASE f = NoFile -> NoValue
         [] f \in RootFiles -> TableValue(f, r, n)
         [] f \in AsciiFiles -> Text[f][n]

\* A program that goes on to another run works with that run's parameters, not
\* with those of the run before, whatever it had read, changed or written.
NewRunReadsInputs ==
    [][\A r \in RunIds, n \in Names :
          /\ alive /\ alive' /\ db'.current = r /\ db.current # r
          /\ n \in db.list
          => LET first == FromInput(1, r, n)
                 either == IF first # NoValue THEN first ELSE FromInput(2, r, n)
             IN either # NoValue => db'.cont[n].value = either]_vars

Stored(f) ==
    \A r \in RunIds, n \in Names :
        HeldNow(db)[r][n].kept => /\ file'[f].run[r][n] > 0
                                  /\ stored'[f][r][n] = HeldNow(db)[r][n]

\* A program that ends leaves in its output, for every run it was in since the
\* output is set, a version of every container it had read or changed, though
\* it never called saveOutput; but not if the output is its first input, which
\* ~FairRuntimeDb has closed by then, nor if it has called saveOutput before.
EndStoresAll ==
    [][End /\ ~early /\ db.output \notin {NoFile, db.input[1]} => Stored(db.output)]_vars

\* The tables of a file are true and complete, whichever programs wrote the file and
\* wherever they died.
TablesRight == TypeOK /\ TablesTrue /\ TablesComplete
=============================================================================
