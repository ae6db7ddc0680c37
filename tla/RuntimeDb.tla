------------------------------ MODULE RuntimeDb ------------------------------
(***************************************************************************)
(* FairRuntimeDb: the parameter containers of a process, its list of runs  *)
(* and, for each run and container, the versions read from the two inputs  *)
(* and the version in the output; with the parameter files it reads and    *)
(* writes (FairParRootFileIo, FairDetParRootFileIo, the ASCII input).      *)
(*                                                                         *)
(* An operator is a method.  Methods that write change the files too, so   *)
(* an operator maps a world [db, file] to the next one.  Containers have   *)
(* names of their own and do not meet, so the loops over the list of       *)
(* containers are functions over names.                                    *)
(***************************************************************************)
EXTENDS Integers, Sequences, SequencesExt

CONSTANTS Names,       \* parameter containers
          RunIds,      \* run numbers, larger than any version of a container
          Values,      \* contents of a container
          RootFiles,   \* ROOT parameter files
          Text         \* what the ASCII files hold: Text[f][n]

ASSUME RunIdAssumption == RunIds \subseteq Nat \ {0}

NoValue == 0
NoRun == -1
NoFile == "none"
Unread == <<-1, -1>>

ASSUME ValueAssumption == Values \subseteq Nat \ {NoValue}

AsciiFiles == DOMAIN Text

\* A file has one format, and NoFile is none; a text gives some containers a value.
ASSUME FileAssumption ==
    /\ RootFiles \cap AsciiFiles = {} /\ NoFile \notin RootFiles \cup AsciiFiles
    /\ \A f \in AsciiFiles : Text[f] \in [Names -> Values \cup {NoValue}]

(***************************************************************************)
(* A ROOT file keeps every cycle of a container under the container's name *)
(* and every table of a run under the run's number; what is read of a run  *)
(* is its latest table.  A container that a table does not list, and a run *)
(* without a table, read like a version 0.                                 *)
(***************************************************************************)
EmptyFile == [cycles |-> [n \in Names |-> << >>],
              run |-> [r \in RunIds |-> [n \in Names |-> 0]]]

\* TDirectory::GetKey: the latest cycle that is not above the one asked for.
KeyAt(cycles, version) == cycles[IF version <= Len(cycles) THEN version ELSE Len(cycles)]

NewContainer == [value |-> NoValue, in |-> Unread, static |-> FALSE, changed |-> FALSE]
NewVersion == [in |-> Unread, root |-> 0]

NewDb == [list |-> {}, cont |-> [n \in Names |-> NewContainer],
          runs |-> << >>,
          vers |-> [r \in RunIds |-> [n \in Names |-> NewVersion]],
          current |-> NoRun, input |-> <<NoFile, NoFile>>, output |-> NoFile,
          open |-> {}, versionsChanged |-> FALSE]

AddContainer(db, n, container) ==
    IF n \in db.list THEN db
    ELSE [db EXCEPT !.list = @ \cup {n}, !.cont[n] = container]

HasRun(db, r) == \E i \in DOMAIN db.runs : db.runs[i] = r

\* No caller in the repository names a reference run, so runs have none.
AddRun(db, r) ==
    IF HasRun(db, r) THEN db
    ELSE [db EXCEPT !.runs = Append(@, r), !.current = r]

----------------------------------------------------------------------------
(***************************************************************************)
(* Inputs and output.                                                      *)
(***************************************************************************)
ResetInputVersions(db) ==
    [db EXCEPT
        !.vers = [r \in RunIds |-> [n \in Names |-> [db.vers[r][n] EXCEPT !.in = Unread]]],
        !.cont = [n \in Names |-> IF db.cont[n].static THEN db.cont[n]
                                  ELSE [db.cont[n] EXCEPT !.in = Unread, !.changed = FALSE]]]

ResetOutputVersions(db) ==
    [db EXCEPT !.vers = [r \in RunIds |-> [n \in Names |-> [db.vers[r][n] EXCEPT !.root = 0]]]]

\* setFirstInput and setSecondInput of an open file.
SetInput(db, k, f) ==
    LET set == ResetInputVersions([db EXCEPT !.input[k] = f, !.open = @ \cup {f}])
    IN IF db.output # NoFile /\ set.input[1] # db.output THEN ResetOutputVersions(set) ELSE set

SetOutput(db, f) == ResetOutputVersions([db EXCEPT !.output = f, !.open = @ \cup {f}])

CloseInput(db, k) ==
    [db EXCEPT !.open = @ \ {db.input[k]}, !.input[k] = NoFile]

----------------------------------------------------------------------------
(***************************************************************************)
(* Writing.                                                                *)
(***************************************************************************)
OutputOpen(db) == db.output # NoFile /\ db.output \in db.open

\* Mutants: the version of the first run with any input
\* versions; -1 for a container without a version.
FindOutputVersionAny(db, n) ==
    LET first == SelectInSeq(db.runs, LAMBDA r : db.vers[r][n].root # 0)
    IN IF (db.cont[n].in = Unread /\ db.cont[n].changed) \/ first = 0 THEN 0
       ELSE db.vers[db.runs[first]][n].root

FindOutputVersionNone(db, n) ==
    LET c == db.cont[n]
        first == SelectInSeq(db.runs, LAMBDA r : /\ db.vers[r][n].in = c.in
                                                 /\ db.vers[r][n].root # 0)
    IN CASE c.in = Unread /\ c.changed -> 0
         [] first # 0 /\ ~(c.in = Unread /\ c.changed) -> db.vers[db.runs[first]][n].root
         [] OTHER -> -1

FindOutputVersion(db, n) ==
    LET c == db.cont[n]
        Root(i) == db.vers[db.runs[i]][n].root
        Same(r) == db.vers[r][n].in = c.in /\ db.vers[r][n].root # 0
        here == SelectInSeq(db.runs, LAMBDA r : r = db.current)
        last == SelectLastInSubSeq(db.runs, 1, here, Same)
        first == SelectInSeq(db.runs, Same)
    IN CASE c.in = Unread /\ c.changed -> 0
         [] c.in = Unread /\ ~c.changed -> IF last = 0 THEN 0 ELSE Root(last)
         [] c.in # Unread /\ db.input[1] = db.output /\ c.in[1] > 0 /\ c.in[2] = -1 -> c.in[1]
         [] OTHER -> IF first = 0 THEN 0 ELSE Root(first)

\* A changed container without a version in the output is written as a new cycle.
WritesCycle(db, n) ==
    OutputOpen(db) /\ db.cont[n].changed /\ FindOutputVersion(db, n) = 0

\* The version writeContainer works out (cv), 0 when it needs none.
OutputVersion(w, n) ==
    LET c == w.db.cont[n]
    IN IF WritesCycle(w.db, n) THEN Len(w.file[w.db.output].cycles[n]) + 1
       ELSE IF OutputOpen(w.db) /\ (c.changed \/ w.db.vers[w.db.current][n].root = 0)
            THEN FindOutputVersion(w.db, n) ELSE 0

VersionAfterWrite(w, r, n) ==
    LET v == w.db.vers[r][n]
        in == w.db.cont[n].in
        cv == OutputVersion(w, n)
    IN IF n \notin w.db.list \/ r # w.db.current THEN v
       ELSE [in |-> in,
             root |-> IF OutputOpen(w.db) /\ (w.db.cont[n].changed \/ v.root = 0)
                      THEN cv ELSE v.root]

WriteContainers(w) ==
    LET db == w.db
        writes == {n \in db.list : WritesCycle(db, n)}
    IN IF db.current = NoRun THEN w
       ELSE [db |-> [db EXCEPT
                        !.vers = [r \in RunIds |->
                                    [n \in Names |-> VersionAfterWrite(w, r, n)]],
                        !.cont = [n \in Names |-> IF n \in db.list
                                                  THEN [db.cont[n] EXCEPT !.changed = FALSE]
                                                  ELSE db.cont[n]],
                        !.versionsChanged = @ \/ writes # {}],
             file |-> IF writes = {} THEN w.file
                      ELSE [w.file EXCEPT ![db.output].cycles =
                              [n \in Names |-> IF n \in writes THEN Append(@[n], db.cont[n].value)
                                                               ELSE @[n]]]]

\* The table of a run as FairRtdbRun is written: the containers of the list.
Table(db, r) == [n \in Names |-> IF n \in db.list THEN db.vers[r][n].root ELSE 0]

TableWritten(db) == OutputOpen(db) /\ db.versionsChanged

WriteVersions(w) ==
    IF ~TableWritten(w.db) THEN w
    ELSE [db |-> [w.db EXCEPT !.versionsChanged = FALSE],
          file |-> [w.file EXCEPT ![w.db.output].run =
                      [r \in RunIds |-> IF HasRun(w.db, r) THEN Table(w.db, r) ELSE @[r]]]]

SaveOutput(w) == WriteVersions(WriteContainers(w))

\* Mutant: the versions are reset before the output is saved.
CloseOutputReset(w) ==
    LET saved == SaveOutput([w EXCEPT !.db = ResetOutputVersions(w.db)])
    IN IF w.db.output = NoFile THEN w
       ELSE [saved EXCEPT !.db = [saved.db EXCEPT !.output = NoFile,
                                                  !.open = @ \ {w.db.output}]]

CloseOutput(w) ==
    IF w.db.output = NoFile THEN w
    ELSE LET saved == SaveOutput(w)
         IN [saved EXCEPT !.db = [ResetOutputVersions(saved.db) EXCEPT
                                     !.output = NoFile, !.open = @ \ {w.db.output}]]

\* ~FairRuntimeDb
Destroy(w) == CloseOutput([w EXCEPT !.db = CloseInput(CloseInput(w.db, 1), 2)])

----------------------------------------------------------------------------
(***************************************************************************)
(* Initialisation: FairParSet::init of a container, first input first.     *)
(***************************************************************************)
FindInputVersion(w, n, k) ==
    LET predefined == w.db.vers[w.db.current][n].in[k]
    IN IF predefined > 0 THEN predefined
       ELSE w.file[w.db.input[k]].run[w.db.current][n]

NotFound(c, k) == [cont |-> [c EXCEPT !.in[k] = -1], found |-> FALSE]

\* Mutant: a container that was read once is not read again.
ReadRootOnce(w, c, n, k) ==
    LET version == FindInputVersion(w, n, k)
        cycles == w.file[w.db.input[k]].cycles[n]
    IN CASE version <= 0 \/ cycles = << >> -> NotFound(c, k)
         [] version > 0 /\ cycles # << >> /\ c.in[k] > 0 -> [cont |-> c, found |-> TRUE]
         [] OTHER -> [cont |-> [value |-> KeyAt(cycles, version),
                                in |-> [Unread EXCEPT ![k] = version],
                                static |-> FALSE, changed |-> TRUE],
                      found |-> TRUE]

\* FairDetParRootFileIo::read
ReadRoot(w, c, n, k) ==
    LET version == FindInputVersion(w, n, k)
        cycles == w.file[w.db.input[k]].cycles[n]
    IN CASE version <= 0 -> NotFound(c, k)
         [] version > 0 /\ c.in[k] = version -> [cont |-> c, found |-> TRUE]
         [] version > 0 /\ c.in[k] # version /\ cycles = << >> -> NotFound(c, k)
         [] OTHER -> [cont |-> [value |-> KeyAt(cycles, version),
                                in |-> [Unread EXCEPT ![k] = version],
                                static |-> FALSE, changed |-> TRUE],
                      found |-> TRUE]

\* FairGenericParAsciiFileIo::readGenericSet: there are no versions in text.
ReadText(c, text, n, k) ==
    IF text[n] = NoValue THEN [cont |-> c, found |-> FALSE]
    ELSE [cont |-> [c EXCEPT !.value = text[n], !.in[k] = 1, !.changed = TRUE], found |-> TRUE]

ReadInput(w, c, n, k) ==
    CASE w.db.input[k] = NoFile -> [cont |-> c, found |-> FALSE]
      [] w.db.input[k] \in RootFiles -> ReadRoot(w, c, n, k)
      [] w.db.input[k] \in AsciiFiles -> ReadText(c, Text[w.db.input[k]], n, k)

\* Mutants: the second input is never asked; a static container is read too.
InitContainerFirst(w, n) == ReadInput(w, w.db.cont[n], n, 1)

InitialisedAll(w) == w.db.list

InitContainer(w, n) ==
    LET first == ReadInput(w, w.db.cont[n], n, 1)
    IN IF first.found THEN [first EXCEPT !.cont.in[2] = -1]
       ELSE ReadInput(w, first.cont, n, 2)

Initialised(w) == {n \in w.db.list : ~w.db.cont[n].static}

\* initContainers(runId) up to the containers: the run that ends is written,
\* the new one becomes the current one.
EnterRun(w, r) ==
    LET left == IF w.db.current \notin {NoRun, r} THEN WriteContainers(w) ELSE w
    IN [left EXCEPT !.db = [AddRun(left.db, r) EXCEPT !.current = r]]

ReadContainers(w) ==
    [w EXCEPT !.db.cont = [n \in Names |-> IF n \in Initialised(w)
                                           THEN InitContainer(w, n).cont
                                           ELSE w.db.cont[n]]]

InitContainers(w, r) == ReadContainers(EnterRun(w, r))

\* What initContainers returns, of a data base that has entered the run.
InitSucceeds(w) == \A n \in Initialised(w) : InitContainer(w, n).found
=============================================================================
