---------------------------- MODULE LaunchProofs ----------------------------
(***************************************************************************)
(* What a launch depends on: the files the operator's tool leaves on the   *)
(* host, and the context the guest accepts from them.                      *)
(***************************************************************************)
EXTENDS Operator, Boot, TLAPS

-----------------------------------------------------------------------------
(***************************************************************************)
(* The safety properties of Operator, for any set of runs, sequence        *)
(* numbers and commands and any number of contexts.                        *)
(*                                                                         *)
(* The argument: a file whose data and entry are synced is never touched   *)
(* again, because a run writes only the file it created and that file is   *)
(* still partial then, and because a directory holds files only once it is *)
(* synced itself.  The second file of a run is made only after the first   *)
(* is synced, so a public identity implies its key, and launch.used stays  *)
(* for ever once a run went on to launch.                                  *)
(***************************************************************************)

Key == <<"key">>
Pub == <<"pub">>
Context == <<"context">>
Used == <<"used">>
Img == <<"img">>

(* What is left to make, at any point of any command.                      *)
Plans == {<<Key, Pub>>, <<Pub>>, <<Context>>, <<Used, Img>>, <<Img>>}
         \cup {<<Request(n)>> : n \in Sequences}

(* The files are different, and where they are.                            *)
LEMMA FileFacts ==
  /\ {Key, Pub, Context, Used, Img} \subseteq Files
  /\ \A n \in Sequences : Request(n) \in Files \ {Key, Pub, Context, Used, Img}
  /\ Key # Pub /\ Key # Used /\ Key # Img /\ Pub # Used /\ Pub # Img /\ Used # Img
  /\ Context \notin {Key, Pub, Used, Img}
  /\ DirOf(Key) = "identity" /\ DirOf(Pub) = "identity"
  /\ \A f \in Files \ {Key, Pub} : DirOf(f) = "session"
<1>1. /\ Key # Pub /\ Key # Used /\ Key # Img /\ Pub # Used /\ Pub # Img /\ Used # Img
      /\ Context \notin {Key, Pub, Used, Img}
  BY DEF Key, Pub, Context, Used, Img
<1>2. \A n : Request(n) \notin {Key, Pub, Context, Used, Img}
  <2> SUFFICES ASSUME NEW n, NEW f \in {Key, Pub, Context, Used, Img} PROVE Request(n) # f
    OBVIOUS
  <2>1. Len(Request(n)) = 2
    BY DEF Request
  <2>2. Len(f) = 1
    BY DEF Key, Pub, Context, Used, Img
  <2> QED BY <2>1, <2>2
<1>3. /\ {Key, Pub, Context, Used, Img} \subseteq Files
      /\ \A n \in Sequences : Request(n) \in Files
  BY DEF Files, IdentityFiles, SessionFiles, Key, Pub, Context, Used, Img
<1>4. IdentityFiles = {Key, Pub}
  BY DEF IdentityFiles, Key, Pub
<1> QED BY <1>1, <1>2, <1>3, <1>4 DEF DirOf

(* What the head and the tail of a plan are.                               *)
LEMMA PlanFacts ==
  ASSUME NEW t \in Plans
  PROVE  /\ t # <<>> /\ Head(t) \in Files
         /\ Head(t) = Pub => t = <<Pub>>
         /\ Head(t) = Used <=> t = <<Used, Img>>
         /\ Head(t) = Img <=> t = <<Img>>
         /\ Len(t) # 1 => \/ t = <<Key, Pub>> /\ Head(t) = Key /\ Tail(t) = <<Pub>>
                          \/ t = <<Used, Img>> /\ Head(t) = Used /\ Tail(t) = <<Img>>
         /\ Len(t) # 1 => Tail(t) \in Plans /\ DirOf(Head(Tail(t))) = DirOf(Head(t))
<1>1. CASE t = <<Key, Pub>>
  <2>1. Head(t) = Key /\ Tail(t) = <<Pub>> /\ Len(t) = 2 /\ Head(Tail(t)) = Pub
    BY <1>1
  <2>2. t # <<Used, Img>> /\ t # <<Img>>
    BY <1>1, FileFacts
  <2> QED BY <1>1, <2>1, <2>2, FileFacts DEF Plans
<1>2. CASE t = <<Used, Img>>
  <2>1. Head(t) = Used /\ Tail(t) = <<Img>> /\ Len(t) = 2 /\ Head(Tail(t)) = Img
    BY <1>2
  <2>2. t # <<Img>>
    BY <1>2
  <2> QED BY <1>2, <2>1, <2>2, FileFacts DEF Plans
<1>3. CASE \E f \in Files \ {Key, Used} : t = <<f>>
  <2>1. PICK f \in Files \ {Key, Used} : t = <<f>>
    BY <1>3
  <2>2. Head(t) = f /\ Len(t) = 1 /\ t # <<Used, Img>>
    BY <2>1
  <2> QED BY <2>1, <2>2, FileFacts
<1> QED BY <1>1, <1>2, <1>3, FileFacts DEF Plans

-----------------------------------------------------------------------------
(* The steps between making a file and being done with it.                 *)
Holding == {"write", "sync file", "sync dir", "done"}
Steps == {"gone", "mkdir", "sync parent", "open"} \cup Holding

Content == Seq((1..MaxContexts) \cup Sequences \cup Commands)
FileState == [state : {"absent", "partial", "whole"}, content : Content,
              data : BOOLEAN, entry : BOOLEAN]
RunState == [step : Steps, dir : {"identity", "session", "none"},
             todo : Plans \cup {<<>>}, content : Content, good : BOOLEAN]

TypeOK ==
  /\ dirs \in [{"identity", "session"} -> {"absent", "unsynced", "synced"}]
  /\ files \in [Files -> FileState]
  /\ run \in [Runs -> RunState]
  /\ drawn \in 0..MaxContexts
  /\ reported \in SUBSET (Files \X Content)
  /\ launched \in [1..MaxContexts -> Nat]

(* A run makes files of one directory, along a plan.                       *)
Planned ==
  \A r \in Runs : IF run[r].step = "gone" THEN run[r].todo = <<>>
                  ELSE run[r].todo \in Plans /\ run[r].dir = DirOf(File(r))

(* No file, and no run about to make one, before its directory is synced.  *)
DirsSynced ==
  /\ \A f \in Files : files[f].state # "absent" => dirs[DirOf(f)] = "synced"
  /\ \A r \in Runs : run[r].step \in {"open"} \cup Holding => dirs[run[r].dir] = "synced"

(* What a run knows of the file it made.                                   *)
Progress(r) ==
  /\ run[r].step \in Holding => files[File(r)].state # "absent"
  /\ run[r].step \notin {"sync file", "sync dir"} => run[r].good = TRUE
  /\ run[r].step = "write" => files[File(r)].state = "partial"
  /\ run[r].step \in {"sync file", "sync dir", "done"} /\ run[r].good = TRUE
       => files[File(r)].state = "whole" /\ files[File(r)].content = run[r].content
  /\ run[r].step \in {"sync dir", "done"} /\ run[r].good = TRUE => files[File(r)].data = TRUE
  /\ run[r].step = "done" => files[File(r)].entry = TRUE

Exclusive ==
  \A r, q \in Runs : r # q /\ run[r].step \in Holding /\ run[q].step \in Holding
                       => File(r) # File(q)

Synced(f) == files[f].state = "whole" /\ files[f].data = TRUE /\ files[f].entry = TRUE

KeyFirst ==
  /\ files[Pub].state # "absent" => Synced(Key)
  /\ \A r \in Runs : run[r].todo = <<Pub>> => Synced(Key)

(* The run that made launch.used and has not launched yet.                 *)
Claims(r) ==
  run[r].todo = <<Img>> \/ (run[r].todo = <<Used, Img>> /\ run[r].step \in Holding)

UsedOnce ==
  /\ \A r, q \in Runs : Claims(r) /\ Claims(q) => r = q
  /\ \A r \in Runs : run[r].todo = <<Img>> => Synced(Used)
  /\ \A r \in Runs : Claims(r) => \A c \in 1..MaxContexts : launched[c] = 0
  /\ \A c \in 1..MaxContexts : launched[c] # 0 => launched[c] = 1 /\ Synced(Used)

ReportedSynced == \A p \in reported : Synced(p[1]) /\ files[p[1]].content = p[2]

OperatorInv ==
  /\ TypeOK
  /\ Planned
  /\ DirsSynced
  /\ \A r \in Runs : Progress(r)
  /\ Exclusive
  /\ KeyFirst
  /\ UsedOnce
  /\ ReportedSynced

-----------------------------------------------------------------------------
(* Nothing is made, and no run is running, at first.                       *)
LEMMA OperatorInit == Init => OperatorInv
<1> SUFFICES ASSUME Init PROVE OperatorInv
  OBVIOUS
<1>1. <<>> \in Content /\ Absent \in FileState /\ Gone \in RunState
  BY DEF Content, Absent, FileState, Gone, RunState, Steps
<1>2. TypeOK
  BY <1>1, OperatorAssumption DEF Init, TypeOK
<1>3. \A f \in Files : files[f].state = "absent"
  BY DEF Init, Absent
<1>4. \A r \in Runs : run[r].step = "gone" /\ run[r].todo = <<>> /\ run[r].good = TRUE
  BY DEF Init, Gone
<1>5. Planned /\ DirsSynced /\ (\A r \in Runs : Progress(r)) /\ Exclusive
  BY <1>3, <1>4 DEF Planned, DirsSynced, Progress, Exclusive, Holding
<1>6. <<>> # <<Pub>> /\ <<>> # <<Img>> /\ <<>> # <<Used, Img>>
  OBVIOUS
<1>7. KeyFirst /\ UsedOnce /\ ReportedSynced
  BY <1>3, <1>4, <1>6, FileFacts DEF KeyFirst, UsedOnce, ReportedSynced, Claims, Init
<1> QED BY <1>2, <1>5, <1>7 DEF OperatorInv

(* A run that ends leaves everything else as it is.                        *)
LEMMA QuitStep ==
  ASSUME OperatorInv, NEW r \in Runs, Quit(r),
         UNCHANGED <<dirs, files, drawn, reported, launched>>
  PROVE  OperatorInv'
<1>1. /\ run'[r] = Gone /\ \A q \in Runs : q # r => run'[q] = run[q]
      /\ run' \in [Runs -> RunState]
  <2>1. <<>> \in Content /\ Gone \in RunState
    BY DEF Content, Gone, RunState, Steps
  <2> QED BY <2>1 DEF OperatorInv, TypeOK, Quit
<1>2. run'[r].step = "gone" /\ run'[r].todo = <<>> /\ run'[r].good = TRUE
  BY <1>1 DEF Gone
<1>3. TypeOK'
  BY <1>1 DEF OperatorInv, TypeOK
<1>4. Planned' /\ DirsSynced' /\ (\A q \in Runs : Progress(q)') /\ Exclusive'
  <2>1. Planned'
    BY <1>1, <1>2 DEF OperatorInv, Planned, File
  <2>2. DirsSynced'
    BY <1>1, <1>2 DEF OperatorInv, DirsSynced, Holding
  <2>3. ASSUME NEW q \in Runs PROVE Progress(q)'
    BY <1>1, <1>2 DEF OperatorInv, Progress, Holding, File
  <2>4. Exclusive'
    BY <1>1, <1>2 DEF OperatorInv, Exclusive, Holding, File
  <2> QED BY <2>1, <2>2, <2>3, <2>4
<1>5. <<>> # <<Pub>> /\ <<>> # <<Img>> /\ <<>> # <<Used, Img>>
  OBVIOUS
<1>6. KeyFirst'
  BY <1>1, <1>2, <1>5 DEF OperatorInv, KeyFirst, Synced
<1>7. UsedOnce'
  BY <1>1, <1>2, <1>5 DEF OperatorInv, UsedOnce, Synced, Claims
<1>8. ReportedSynced'
  BY DEF OperatorInv, ReportedSynced, Synced
<1> QED BY <1>3, <1>4, <1>6, <1>7, <1>8 DEF OperatorInv

(* A run that begins holds nothing yet.                                    *)
LEMMA BeginStep ==
  ASSUME OperatorInv, NEW r \in Runs, NEW step \in {"mkdir", "open"},
         NEW todo \in Plans \ {<<Pub>>, <<Img>>}, NEW content \in Content,
         Begin(r, step, DirOf(Head(todo)), todo, content), drawn' \in 0..MaxContexts,
         step = "open" => dirs[DirOf(Head(todo))] = "synced"
  PROVE  OperatorInv'
<1> DEFINE new == [step |-> step, dir |-> DirOf(Head(todo)), todo |-> todo,
                   content |-> content, good |-> TRUE]
<1>1. UNCHANGED <<dirs, files, reported, launched>> /\ run' = [run EXCEPT ![r] = new]
  BY DEF Begin
<1>2. new \in RunState
  BY DEF RunState, Steps, DirOf
<1>3. /\ run'[r] = new /\ \A q \in Runs : q # r => run'[q] = run[q]
      /\ run' \in [Runs -> RunState]
  BY <1>1, <1>2 DEF OperatorInv, TypeOK
<1>4. /\ run'[r].step = step /\ run'[r].todo = todo /\ run'[r].good = TRUE
      /\ run'[r].dir = DirOf(Head(todo))
  BY <1>3
<1>5. step \notin Holding /\ step # "gone"
  BY DEF Holding
<1> HIDE DEF new
<1>6. TypeOK'
  BY <1>1, <1>3 DEF OperatorInv, TypeOK
<1>7. Planned'
  BY <1>3, <1>4, <1>5 DEF OperatorInv, Planned, File
<1>8. DirsSynced'
  BY <1>1, <1>3, <1>4, <1>5 DEF OperatorInv, DirsSynced
<1>9. ASSUME NEW q \in Runs PROVE Progress(q)'
  BY <1>1, <1>3, <1>4, <1>5 DEF OperatorInv, Progress, Holding, File
<1>10. Exclusive'
  BY <1>3, <1>4, <1>5 DEF OperatorInv, Exclusive, File
<1>11. KeyFirst'
  BY <1>1, <1>3, <1>4, <1>5 DEF OperatorInv, KeyFirst, Synced
<1>12. UsedOnce'
  BY <1>1, <1>3, <1>4, <1>5 DEF OperatorInv, UsedOnce, Synced, Claims
<1>13. ReportedSynced'
  BY <1>1 DEF OperatorInv, ReportedSynced, Synced
<1> QED BY <1>6, <1>7, <1>8, <1>9, <1>10, <1>11, <1>12, <1>13 DEF OperatorInv

(* The four commands that make something begin so.                         *)
LEMMA CommandsStep ==
  ASSUME OperatorInv, NEW r \in Runs,
         \/ create_identity(r) \/ context_create(r) \/ launch_guest(r)
         \/ \E n \in Sequences, c \in Commands : sign(r, n, c)
  PROVE  OperatorInv'
<1>1. /\ drawn \in 0..MaxContexts /\ <<>> \in Content
      /\ files[Context].content \in Content
      /\ Readable(Context) => dirs["session"] = "synced"
  BY FileFacts DEF OperatorInv, TypeOK, FileState, Content, DirsSynced, Readable
<1>2. CASE create_identity(r)
  <2>1. <<Key, Pub>> \in Plans \ {<<Pub>>, <<Img>>}
    BY DEF Plans
  <2>2. DirOf(Head(<<Key, Pub>>)) = "identity"
    BY FileFacts
  <2>3. Begin(r, "mkdir", "identity", <<Key, Pub>>, <<>>) /\ drawn' = drawn
    BY <1>2 DEF create_identity, Key, Pub
  <2> QED BY <1>1, <2>1, <2>2, <2>3, BeginStep
<1>3. CASE context_create(r)
  <2>1. <<Context>> \in Plans \ {<<Pub>>, <<Img>>}
    BY FileFacts DEF Plans
  <2>2. DirOf(Head(<<Context>>)) = "session"
    BY FileFacts
  <2>3. drawn' \in 1..MaxContexts /\ drawn' \in 0..MaxContexts
    BY <1>1, <1>3, OperatorAssumption DEF context_create
  <2>4. <<drawn'>> \in Content
    BY <2>3 DEF Content
  <2>5. Begin(r, "mkdir", "session", <<Context>>, <<drawn'>>)
    BY <1>3 DEF context_create, Context
  <2> QED BY <2>1, <2>2, <2>3, <2>4, <2>5, BeginStep
<1>4. CASE launch_guest(r)
  <2>1. <<Used, Img>> \in Plans \ {<<Pub>>, <<Img>>}
    BY DEF Plans
  <2>2. DirOf(Head(<<Used, Img>>)) = "session"
    BY FileFacts
  <2>3. /\ Begin(r, "open", "session", <<Used, Img>>, files[Context].content)
        /\ drawn' = drawn /\ Readable(Context)
    BY <1>4 DEF launch_guest, Used, Img, Context
  <2> QED BY <1>1, <2>1, <2>2, <2>3, BeginStep
<1>5. ASSUME NEW n \in Sequences, NEW c \in Commands, sign(r, n, c) PROVE OperatorInv'
  <2>1. <<Request(n)>> \in Plans \ {<<Pub>>, <<Img>>}
    BY FileFacts DEF Plans
  <2>2. DirOf(Head(<<Request(n)>>)) = "session"
    BY FileFacts
  <2>3. files[Context].content \o <<n, c>> \in Content
    BY <1>1 DEF Content
  <2>4. /\ Begin(r, "open", "session", <<Request(n)>>, files[Context].content \o <<n, c>>)
        /\ drawn' = drawn /\ Readable(Context)
    BY <1>5 DEF sign, Context
  <2> QED BY <1>1, <2>1, <2>2, <2>3, <2>4, BeginStep
<1> QED BY <1>2, <1>3, <1>4, <1>5

(* A run that makes or syncs its directory holds no file, and a directory  *)
(* in which a file or a run that makes one is, is synced already.          *)
LEMMA DirStep ==
  ASSUME OperatorInv, NEW r \in Runs, mkdirat(r) \/ SyncParent(r)
  PROVE  OperatorInv'
<1>1. CASE mkdirat(r) /\ dirs[run[r].dir] # "absent"
  BY <1>1, QuitStep DEF mkdirat
<1>2. CASE SyncParent(r) \/ (mkdirat(r) /\ dirs[run[r].dir] = "absent")
  <2>1. PICK step \in {"sync parent", "open"}, state \in {"unsynced", "synced"} :
          /\ dirs' = [dirs EXCEPT ![run[r].dir] = state]
          /\ run' = [run EXCEPT ![r].step = step]
          /\ step = "open" => state = "synced"
          /\ state = "unsynced" => dirs[run[r].dir] = "absent"
    BY <1>2 DEF mkdirat, SyncParent, To
  <2>2. /\ UNCHANGED <<files, drawn, reported, launched>>
        /\ run[r].step \in {"mkdir", "sync parent"}
    BY <1>2 DEF mkdirat, SyncParent
  <2>3. /\ run[r].good = TRUE /\ run[r].todo \in Plans /\ run[r].dir = DirOf(File(r))
        /\ run[r].dir \in {"identity", "session"}
    BY <2>2 DEF OperatorInv, Progress, Planned, DirOf
  <2>4. /\ run'[r].step = step /\ run'[r].todo = run[r].todo /\ run'[r].good = TRUE
        /\ run'[r].dir = run[r].dir /\ step \notin Holding /\ step # "gone"
        /\ \A q \in Runs : q # r => run'[q] = run[q]
        /\ run' \in [Runs -> RunState]
    BY <2>1, <2>3 DEF OperatorInv, TypeOK, RunState, Steps, Holding
  <2>5. /\ dirs' \in [{"identity", "session"} -> {"absent", "unsynced", "synced"}]
        /\ dirs'[run[r].dir] = state
        /\ \A d \in {"identity", "session"} : dirs[d] = "synced" => dirs'[d] = "synced"
    BY <2>1, <2>3 DEF OperatorInv, TypeOK
  <2>6. TypeOK'
    BY <2>2, <2>4, <2>5 DEF OperatorInv, TypeOK
  <2>7. Planned'
    BY <2>3, <2>4 DEF OperatorInv, Planned, File
  <2>8. DirsSynced'
    <3>1. \A q \in Runs : run[q].step \in {"open"} \cup Holding
                            => run[q].dir \in {"identity", "session"}
      BY DEF OperatorInv, Planned, DirOf, Holding
    <3>2. \A f \in Files : DirOf(f) \in {"identity", "session"}
      BY DEF DirOf
    <3> QED BY <2>1, <2>2, <2>4, <2>5, <3>1, <3>2 DEF OperatorInv, DirsSynced
  <2>9. ASSUME NEW q \in Runs PROVE Progress(q)'
    BY <2>2, <2>4 DEF OperatorInv, Progress, Holding, File
  <2>10. Exclusive'
    BY <2>4 DEF OperatorInv, Exclusive, File
  <2>11. KeyFirst'
    BY <2>2, <2>4 DEF OperatorInv, KeyFirst, Synced
  <2>12. UsedOnce'
    <3>1. \A q \in Runs : (Claims(q)' => Claims(q)) /\ run'[q].todo = run[q].todo
      BY <2>4 DEF Claims
    <3> QED BY <2>2, <3>1 DEF OperatorInv, UsedOnce, Synced
  <2>13. ReportedSynced'
    BY <2>2 DEF OperatorInv, ReportedSynced, Synced
  <2> QED BY <2>6, <2>7, <2>8, <2>9, <2>10, <2>11, <2>12, <2>13 DEF OperatorInv
<1> QED BY <1>1, <1>2

-----------------------------------------------------------------------------
(* A file that would survive a power loss is not touched again.            *)
Kept == \A f \in Files : Synced(f) => Synced(f)' /\ files'[f].content = files[f].content

(* Reports stay true then.                                                 *)
LEMMA KeptReports ==
  ASSUME OperatorInv, Kept, reported' = reported
  PROVE  ReportedSynced'
<1> SUFFICES ASSUME NEW p \in reported PROVE Synced(p[1])' /\ files'[p[1]].content = p[2]
  BY DEF ReportedSynced
<1>1. p[1] \in Files
  BY DEF OperatorInv, TypeOK
<1>2. Synced(p[1]) /\ files[p[1]].content = p[2]
  BY DEF OperatorInv, ReportedSynced
<1> QED BY <1>1, <1>2 DEF Kept

(* A name is taken only if it was free, so the run that takes it has the   *)
(* file to itself.                                                         *)
LEMMA OpenNewStep ==
  ASSUME OperatorInv, NEW r \in Runs, OpenNew(r)
  PROVE  OperatorInv'
<1> DEFINE f0 == File(r)
           g  == [Absent EXCEPT !.state = "partial"]
<1>1. CASE files[f0].state # "absent"
  BY <1>1, QuitStep DEF OpenNew
<1>2. CASE files[f0].state = "absent"
  <2>1. /\ run[r].step = "open" /\ files' = [files EXCEPT ![f0] = g]
        /\ run' = [run EXCEPT ![r].step = "write"]
        /\ UNCHANGED <<dirs, drawn, reported, launched>>
    BY <1>2 DEF OpenNew, To
  <2>2. /\ run[r].todo \in Plans /\ run[r].dir = DirOf(f0) /\ run[r].good = TRUE
        /\ dirs[DirOf(f0)] = "synced"
    BY <2>1 DEF OperatorInv, Planned, Progress, DirsSynced
  <2>3. f0 \in Files
    BY <2>2, PlanFacts DEF File
  <2>4. g \in FileState /\ g.state = "partial"
    <3>1. Absent \in FileState
      BY DEF Absent, FileState, Content
    <3> QED BY <3>1 DEF FileState
  <2> HIDE DEF g
  <2>5. /\ files' \in [Files -> FileState] /\ files'[f0] = g
        /\ \A f \in Files : f # f0 => files'[f] = files[f]
    BY <2>1, <2>3, <2>4 DEF OperatorInv, TypeOK
  <2>6. /\ run' \in [Runs -> RunState]
        /\ run'[r].step = "write" /\ run'[r].todo = run[r].todo /\ run'[r].dir = run[r].dir
        /\ run'[r].good = TRUE
        /\ \A q \in Runs : q # r => run'[q] = run[q]
        /\ \A q \in Runs : File(q)' = File(q)
    BY <2>1, <2>2 DEF OperatorInv, TypeOK, RunState, Steps, Holding, File
  <2>7. \A q \in Runs : q # r /\ run[q].step \in Holding => File(q) \in Files \ {f0}
    <3>1. \A q \in Runs : run[q].step \in Holding => run[q].todo \in Plans
      BY DEF OperatorInv, Planned, Holding
    <3>2. \A q \in Runs : run[q].step \in Holding => files[File(q)].state # "absent"
      BY DEF OperatorInv, Progress
    <3> QED BY <1>2, <3>1, <3>2, PlanFacts DEF File
  <2>8. Kept
    BY <1>2, <2>3, <2>5 DEF Kept, Synced
  <2> HIDE DEF f0
  <2>9. TypeOK'
    BY <2>1, <2>5, <2>6 DEF OperatorInv, TypeOK
  <2>10. Planned'
    BY <2>1, <2>6 DEF OperatorInv, Planned
  <2>11. DirsSynced'
    BY <2>1, <2>2, <2>5, <2>6 DEF OperatorInv, DirsSynced
  <2>12. ASSUME NEW q \in Runs PROVE Progress(q)'
    <3>1. CASE q = r
      BY <2>4, <2>5, <2>6, <3>1 DEF Progress, Holding, f0
    <3>2. CASE q # r /\ run[q].step \in Holding
      <4>1. File(q)' = File(q) /\ files'[File(q)] = files[File(q)] /\ run'[q] = run[q]
        BY <2>5, <2>6, <2>7, <3>2
      <4>2. Progress(q)
        BY DEF OperatorInv
      <4> QED BY <4>1, <4>2 DEF Progress
    <3>3. CASE q # r /\ run[q].step \notin Holding
      BY <2>6, <3>3 DEF OperatorInv, Progress, Holding
    <3> QED BY <3>1, <3>2, <3>3
  <2>13. Exclusive'
    BY <2>6, <2>7 DEF OperatorInv, Exclusive, f0
  <2>14. KeyFirst'
    <3>1. files'[Pub].state # "absent" => Synced(Key)
      <4>1. CASE f0 = Pub
        BY <2>2, <4>1, PlanFacts DEF OperatorInv, KeyFirst, File, f0
      <4>2. CASE f0 # Pub
        BY <2>5, <4>2, FileFacts DEF OperatorInv, KeyFirst
      <4> QED BY <4>1, <4>2
    <3>2. \A q \in Runs : run'[q].todo = <<Pub>> => Synced(Key)
      BY <2>6 DEF OperatorInv, KeyFirst
    <3> QED BY <2>8, <3>1, <3>2, FileFacts DEF KeyFirst, Kept
  <2>15. UsedOnce'
    <3>1. \A q \in Runs : q # r => (Claims(q)' <=> Claims(q))
      BY <2>6 DEF Claims
    <3>2. CASE run[r].todo = <<Used, Img>>
      <4>1. files[Used].state = "absent"
        BY <1>2, <2>2, <3>2, PlanFacts DEF File, f0
      <4>2. \A q \in Runs : q # r => ~Claims(q)
        <5> SUFFICES ASSUME NEW q \in Runs, q # r, Claims(q) PROVE FALSE
          OBVIOUS
        <5>1. run[q].todo # <<Img>>
          BY <4>1 DEF OperatorInv, UsedOnce, Synced
        <5>2. run[q].todo = <<Used, Img>> /\ run[q].step \in Holding
          BY <5>1 DEF Claims
        <5>3. File(q) = Used
          BY <5>2, PlanFacts DEF File, Plans
        <5> QED BY <4>1, <5>2, <5>3 DEF OperatorInv, Progress
      <4>3. \A c \in 1..MaxContexts : launched[c] = 0
        BY <4>1 DEF OperatorInv, UsedOnce, Synced
      <4>4. \A q \in Runs : run'[q].todo # <<Img>>
        BY <2>6, <3>2, <4>2 DEF Claims
      <4> QED BY <2>1, <3>1, <4>2, <4>3, <4>4 DEF UsedOnce
    <3>3. CASE run[r].todo # <<Used, Img>>
      <4>1. \A q \in Runs : (Claims(q)' <=> Claims(q)) /\ run'[q].todo = run[q].todo
        BY <2>6, <3>1, <3>3 DEF Claims
      <4> QED BY <2>1, <2>8, <4>1, FileFacts DEF OperatorInv, UsedOnce, Kept
    <3> QED BY <3>2, <3>3
  <2>16. ReportedSynced'
    BY <2>1, <2>8, KeptReports
  <2> QED BY <2>9, <2>10, <2>11, <2>12, <2>13, <2>14, <2>15, <2>16 DEF OperatorInv
<1> QED BY <1>1, <1>2

(* A run works on the file it made: g is what it makes of it, and no other *)
(* run has that file.                                                      *)
LEMMA HoldStep ==
  ASSUME OperatorInv, NEW r \in Runs, run[r].step \in Holding,
         NEW g \in FileState, g.state # "absent",
         Synced(File(r)) => /\ g.state = "whole" /\ g.data = TRUE /\ g.entry = TRUE
                            /\ g.content = files[File(r)].content,
         NEW step \in {"sync file", "sync dir"}, NEW good \in BOOLEAN,
         good = TRUE => g.state = "whole" /\ g.content = run[r].content,
         good = TRUE /\ step = "sync dir" => g.data = TRUE,
         files' = [files EXCEPT ![File(r)] = g],
         run' \in [Runs -> RunState],
         \A q \in Runs : q # r => run'[q] = run[q],
         run'[r].step = step, run'[r].good = good, run'[r].todo = run[r].todo,
         run'[r].dir = run[r].dir, run'[r].content = run[r].content,
         UNCHANGED <<dirs, drawn, reported, launched>>
  PROVE  OperatorInv'
<1> DEFINE f0 == File(r)
<1>1. run[r].todo \in Plans /\ run[r].dir = DirOf(f0) /\ files[f0].state # "absent"
  BY DEF OperatorInv, Planned, Progress, Holding
<1>2. f0 \in Files
  BY <1>1, PlanFacts DEF File
<1>3. /\ files' \in [Files -> FileState] /\ files'[f0] = g
      /\ \A f \in Files : f # f0 => files'[f] = files[f]
  BY <1>2 DEF OperatorInv, TypeOK
<1>4. /\ step \in Holding /\ step # "gone" /\ step \notin {"write", "done"}
      /\ \A q \in Runs : File(q)' = File(q)
      /\ \A q \in Runs : run'[q].step \in Holding => run[q].step \in Holding
  BY DEF Holding, File
<1>5. \A q \in Runs : q # r /\ run[q].step \in Holding => File(q) \in Files \ {f0}
  <2>1. \A q \in Runs : run[q].step \in Holding => run[q].todo \in Plans
    BY DEF OperatorInv, Planned, Holding
  <2> QED BY <2>1, PlanFacts DEF File, OperatorInv, Exclusive
<1>6. Kept
  BY <1>2, <1>3 DEF Kept, Synced
<1> HIDE DEF f0
<1>7. TypeOK'
  BY <1>3 DEF OperatorInv, TypeOK
<1>8. Planned'
  BY <1>1, <1>4 DEF OperatorInv, Planned, f0
<1>9. DirsSynced'
  <2>1. \A f \in Files : files'[f].state # "absent" => files[f].state # "absent"
    BY <1>1, <1>3
  <2>2. \A q \in Runs : /\ run'[q].dir = run[q].dir
                        /\ run'[q].step \in {"open"} \cup Holding
                             => run[q].step \in {"open"} \cup Holding
    OBVIOUS
  <2> QED BY <2>1, <2>2 DEF OperatorInv, DirsSynced
<1>10. ASSUME NEW q \in Runs PROVE Progress(q)'
  <2>1. CASE q = r
    BY <1>3, <1>4, <2>1 DEF Progress, f0
  <2>2. CASE q # r /\ run[q].step \in Holding
    <3>1. File(q)' = File(q) /\ files'[File(q)] = files[File(q)] /\ run'[q] = run[q]
      BY <1>3, <1>4, <1>5, <2>2
    <3>2. Progress(q)
      BY DEF OperatorInv
    <3> QED BY <3>1, <3>2 DEF Progress
  <2>3. CASE q # r /\ run[q].step \notin Holding
    BY <2>3 DEF OperatorInv, Progress, Holding
  <2> QED BY <2>1, <2>2, <2>3
<1>11. Exclusive'
  BY <1>4 DEF OperatorInv, Exclusive
<1>12. KeyFirst'
  <2>1. files'[Pub].state # "absent" => files[Pub].state # "absent"
    BY <1>1, <1>3, FileFacts
  <2>2. \A q \in Runs : run'[q].todo = run[q].todo
    OBVIOUS
  <2> QED BY <1>6, <2>1, <2>2, FileFacts DEF OperatorInv, KeyFirst, Kept
<1>13. UsedOnce'
  <2>1. \A q \in Runs : (Claims(q)' => Claims(q)) /\ run'[q].todo = run[q].todo
    BY <1>4 DEF Claims
  <2> QED BY <1>6, <2>1, FileFacts DEF OperatorInv, UsedOnce, Kept
<1>14. ReportedSynced'
  BY <1>6, KeptReports
<1> QED BY <1>7, <1>8, <1>9, <1>10, <1>11, <1>12, <1>13, <1>14 DEF OperatorInv

(* The writes, whether they succeed or not.                                *)
LEMMA WriteStep ==
  ASSUME OperatorInv, NEW r \in Runs, Write(r)
  PROVE  OperatorInv'
<1> DEFINE f0 == File(r)
<1>1. /\ run[r].step = "write" /\ UNCHANGED <<dirs, drawn, reported, launched>>
      /\ run[r].step \in Holding
  BY DEF Write, Holding
<1>2. /\ files[f0].state = "partial" /\ run[r].good = TRUE /\ run[r].todo \in Plans
  BY <1>1 DEF OperatorInv, Progress, Planned
<1>3. f0 \in Files /\ files[f0] \in FileState /\ run[r].content \in Content
      /\ ~Synced(f0)
  BY <1>2, PlanFacts DEF File, OperatorInv, TypeOK, RunState, Synced
<1>4. CASE /\ files' = [files EXCEPT ![f0].state = "whole", ![f0].content = run[r].content]
           /\ To(r, "sync file")
  <2> DEFINE g == [files[f0] EXCEPT !.state = "whole", !.content = run[r].content]
  <2>1. g \in FileState /\ g.state = "whole" /\ g.content = run[r].content
    BY <1>3 DEF FileState
  <2>2. files' = [files EXCEPT ![f0] = g]
    BY <1>3, <1>4 DEF OperatorInv, TypeOK
  <2>3. /\ run' \in [Runs -> RunState]
        /\ \A q \in Runs : q # r => run'[q] = run[q]
        /\ run'[r].step = "sync file" /\ run'[r].good = TRUE /\ run'[r].todo = run[r].todo
        /\ run'[r].dir = run[r].dir /\ run'[r].content = run[r].content
    BY <1>2, <1>4 DEF To, OperatorInv, TypeOK, RunState, Steps, Holding
  <2> HIDE DEF g
  <2> QED BY <1>1, <1>3, <2>1, <2>2, <2>3, HoldStep
<1>5. CASE /\ run' = [run EXCEPT ![r].step = "sync file", ![r].good = FALSE]
           /\ UNCHANGED files
  <2>1. files' = [files EXCEPT ![f0] = files[f0]]
    BY <1>3, <1>5 DEF OperatorInv, TypeOK
  <2>2. /\ run' \in [Runs -> RunState]
        /\ \A q \in Runs : q # r => run'[q] = run[q]
        /\ run'[r].step = "sync file" /\ run'[r].good = FALSE /\ run'[r].todo = run[r].todo
        /\ run'[r].dir = run[r].dir /\ run'[r].content = run[r].content
    BY <1>2, <1>5 DEF OperatorInv, TypeOK, RunState, Steps, Holding
  <2> QED BY <1>1, <1>2, <1>3, <2>1, <2>2, HoldStep
<1> QED BY <1>4, <1>5 DEF Write

(* The sync of the file, whether it succeeds or not.                       *)
LEMMA SyncFileStep ==
  ASSUME OperatorInv, NEW r \in Runs, SyncFile(r)
  PROVE  OperatorInv'
<1> DEFINE f0 == File(r)
<1>1. /\ run[r].step = "sync file" /\ UNCHANGED <<dirs, drawn, reported, launched>>
      /\ run[r].step \in Holding
  BY DEF SyncFile, Holding
<1>2. /\ files[f0].state # "absent" /\ run[r].good \in BOOLEAN /\ run[r].todo \in Plans
      /\ run[r].good = TRUE => files[f0].state = "whole" /\ files[f0].content = run[r].content
  BY <1>1 DEF OperatorInv, Progress, Planned, TypeOK, RunState
<1>3. f0 \in Files /\ files[f0] \in FileState
  BY <1>2, PlanFacts DEF File, OperatorInv, TypeOK
<1>4. CASE files' = [files EXCEPT ![f0].data = TRUE] /\ To(r, "sync dir")
  <2> DEFINE g == [files[f0] EXCEPT !.data = TRUE]
  <2>1. /\ g \in FileState /\ g.data = TRUE /\ g.state = files[f0].state
        /\ g.content = files[f0].content /\ g.entry = files[f0].entry
    BY <1>3 DEF FileState
  <2>2. files' = [files EXCEPT ![f0] = g]
    BY <1>3, <1>4 DEF OperatorInv, TypeOK
  <2>3. /\ run' \in [Runs -> RunState]
        /\ \A q \in Runs : q # r => run'[q] = run[q]
        /\ run'[r].step = "sync dir" /\ run'[r].good = run[r].good
        /\ run'[r].todo = run[r].todo
        /\ run'[r].dir = run[r].dir /\ run'[r].content = run[r].content
    BY <1>4 DEF To, OperatorInv, TypeOK, RunState, Steps, Holding
  <2> HIDE DEF g
  <2> QED BY <1>1, <1>2, <1>3, <2>1, <2>2, <2>3, HoldStep DEF Synced
<1>5. CASE /\ UNCHANGED files
           /\ run' = [run EXCEPT ![r].step = "sync dir", ![r].good = FALSE]
  <2>1. files' = [files EXCEPT ![f0] = files[f0]]
    BY <1>3, <1>5 DEF OperatorInv, TypeOK
  <2>2. /\ run' \in [Runs -> RunState]
        /\ \A q \in Runs : q # r => run'[q] = run[q]
        /\ run'[r].step = "sync dir" /\ run'[r].good = FALSE /\ run'[r].todo = run[r].todo
        /\ run'[r].dir = run[r].dir /\ run'[r].content = run[r].content
    BY <1>2, <1>5 DEF OperatorInv, TypeOK, RunState, Steps, Holding
  <2> QED BY <1>1, <1>2, <1>3, <2>1, <2>2, HoldStep DEF Synced
<1> QED BY <1>4, <1>5 DEF SyncFile

(* The sync of the directory makes the run's file safe, with every other   *)
(* file that is there; the run ends, is done, or goes on to the next file. *)
LEMMA SyncDirStep ==
  ASSUME OperatorInv, NEW r \in Runs, SyncDir(r)
  PROVE  OperatorInv'
<1> DEFINE f0 == File(r)
<1>1. /\ run[r].step = "sync dir" /\ UNCHANGED <<dirs, drawn, reported, launched>>
      /\ run[r].step \in Holding
  BY DEF SyncDir, Holding
<1>2. /\ run[r].todo \in Plans /\ run[r].dir = DirOf(f0) /\ files[f0].state # "absent"
      /\ run[r] \in RunState /\ dirs[run[r].dir] = "synced"
      /\ run[r].good = TRUE => /\ files[f0].state = "whole" /\ files[f0].data = TRUE
                               /\ files[f0].content = run[r].content
  BY <1>1 DEF OperatorInv, Planned, Progress, TypeOK, DirsSynced
<1>3. f0 \in Files
  BY <1>2, PlanFacts DEF File
<1>4. CASE UNCHANGED files /\ Quit(r)
  BY <1>1, <1>4, QuitStep
<1>5. CASE /\ files' = [f \in Files |-> IF DirOf(f) = run[r].dir /\ files[f].state # "absent"
                                        THEN [files[f] EXCEPT !.entry = TRUE] ELSE files[f]]
           /\ Written(r)
  <2>1. \A f \in Files : files[f] \in FileState
    BY DEF OperatorInv, TypeOK
  <2>2. /\ files' \in [Files -> FileState]
        /\ \A f \in Files : /\ files'[f].state = files[f].state
                            /\ files'[f].content = files[f].content
                            /\ files'[f].data = files[f].data
                            /\ files[f].entry = TRUE => files'[f].entry = TRUE
        /\ files'[f0].entry = TRUE
    BY <1>2, <1>3, <1>5, <2>1 DEF FileState
  <2>3. Kept
    BY <2>2 DEF Kept, Synced
  <2>4. run[r].good = TRUE => /\ files'[f0].state = "whole" /\ files'[f0].data = TRUE
                              /\ files'[f0].entry = TRUE
    BY <1>2, <1>3, <2>2
  <2>5. /\ run' \in [Runs -> RunState]
        /\ \A q \in Runs : q # r => run'[q] = run[q]
        /\ \/ run'[r].step = "gone" /\ run'[r].todo = <<>> /\ run'[r].good = TRUE
           \/ /\ run'[r].step = "done" /\ run'[r].todo = run[r].todo
              /\ run'[r].good = TRUE /\ run[r].good = TRUE
              /\ run'[r].dir = run[r].dir /\ run'[r].content = run[r].content
           \/ /\ run'[r].step = "open" /\ run'[r].todo = Tail(run[r].todo)
              /\ run'[r].good = TRUE /\ run[r].good = TRUE
              /\ run'[r].dir = run[r].dir /\ Len(run[r].todo) # 1
    <3>1. CASE run[r].good # TRUE
      <4>1. Gone \in RunState
        BY DEF Gone, RunState, Steps, Content
      <4>2. run' = [run EXCEPT ![r] = Gone]
        BY <1>2, <1>5, <3>1 DEF Written, Quit, RunState
      <4> QED BY <4>1, <4>2 DEF OperatorInv, TypeOK, Gone
    <3>2. CASE run[r].good = TRUE /\ Len(run[r].todo) = 1
      <4>1. run' = [run EXCEPT ![r].step = "done", ![r].todo = run[r].todo]
        BY <1>5, <3>2 DEF Written
      <4> QED BY <1>2, <3>2, <4>1 DEF OperatorInv, TypeOK, RunState, Steps, Holding
    <3>3. CASE run[r].good = TRUE /\ Len(run[r].todo) # 1
      <4>1. run' = [run EXCEPT ![r].step = "open", ![r].todo = Tail(run[r].todo)]
        BY <1>5, <3>3 DEF Written
      <4>2. Tail(run[r].todo) \in Plans
        BY <1>2, <3>3, PlanFacts
      <4> QED BY <1>2, <3>3, <4>1, <4>2 DEF OperatorInv, TypeOK, RunState, Steps
    <3> QED BY <3>1, <3>2, <3>3
  <2> HIDE DEF f0
  <2>6. TypeOK'
    BY <1>1, <2>2, <2>5 DEF OperatorInv, TypeOK
  <2>7. Planned'
    <3>1. ASSUME NEW q \in Runs, q # r
          PROVE  IF run'[q].step = "gone" THEN run'[q].todo = <<>>
                 ELSE run'[q].todo \in Plans /\ run'[q].dir = DirOf(File(q)')
      BY <2>5, <3>1 DEF OperatorInv, Planned, File
    <3>2. IF run'[r].step = "gone" THEN run'[r].todo = <<>>
          ELSE run'[r].todo \in Plans /\ run'[r].dir = DirOf(File(r)')
      BY <1>2, <2>5, PlanFacts DEF File, f0
    <3> QED BY <3>1, <3>2 DEF Planned
  <2>8. DirsSynced'
    <3>1. \A q \in Runs : run'[q].step \in {"open"} \cup Holding
                            => dirs[run'[q].dir] = "synced"
      BY <1>2, <2>5 DEF OperatorInv, DirsSynced, Holding
    <3> QED BY <1>1, <2>2, <3>1 DEF OperatorInv, DirsSynced
  <2>9. ASSUME NEW q \in Runs PROVE Progress(q)'
    <3>1. CASE q # r /\ run[q].step \in Holding
      <4>1. run[q].todo \in Plans
        BY <3>1 DEF OperatorInv, Planned, Holding
      <4>2. File(q)' = File(q) /\ File(q) \in Files /\ run'[q] = run[q]
        BY <2>5, <3>1, <4>1, PlanFacts DEF File
      <4>3. Progress(q)
        BY DEF OperatorInv
      <4> QED BY <2>2, <4>2, <4>3 DEF Progress
    <3>2. CASE q # r /\ run[q].step \notin Holding
      BY <2>5, <3>2 DEF OperatorInv, Progress, Holding
    <3>3. CASE q = r /\ run'[r].step # "done"
      BY <2>5, <3>3 DEF Progress, Holding
    <3>4. CASE q = r /\ run'[r].step = "done"
      <4>1. File(r)' = f0 /\ run'[r].content = run[r].content /\ run'[r].good = TRUE
            /\ run[r].good = TRUE
        BY <2>5, <3>4 DEF File, f0
      <4> QED BY <1>2, <1>3, <2>2, <3>4, <4>1 DEF Progress
    <3> QED BY <3>1, <3>2, <3>3, <3>4
  <2>10. Exclusive'
    <3>1. \A q \in Runs : run'[q].step \in Holding
                            => run[q].step \in Holding /\ File(q)' = File(q)
      BY <1>1, <2>5 DEF Holding, File
    <3> QED BY <3>1 DEF OperatorInv, Exclusive
  <2>11. KeyFirst'
    <3>1. files'[Pub].state # "absent" => Synced(Key)'
      BY <2>2, <2>3, FileFacts DEF OperatorInv, KeyFirst, Kept
    <3>2. ASSUME NEW q \in Runs, run'[q].todo = <<Pub>> PROVE Synced(Key)'
      <4>1. CASE run[q].todo = <<Pub>>
        BY <2>3, <4>1, FileFacts DEF OperatorInv, KeyFirst, Kept
      <4>2. CASE run[q].todo # <<Pub>>
        <5>0. <<>> # <<Pub>>
          OBVIOUS
        <5>1. q = r /\ run[r].good = TRUE /\ Len(run[r].todo) # 1
              /\ Tail(run[r].todo) = <<Pub>>
          BY <2>5, <3>2, <4>2, <5>0
        <5>2. f0 = Key
          BY <1>2, <5>1, PlanFacts, FileFacts DEF File, f0
        <5> QED BY <2>4, <5>1, <5>2 DEF Synced
      <4> QED BY <4>1, <4>2
    <3> QED BY <3>1, <3>2 DEF KeyFirst
  <2>12. UsedOnce'
    <3>1. ASSUME NEW q \in Runs, Claims(q)' PROVE Claims(q)
      <4>1. CASE q # r
        BY <2>5, <3>1, <4>1 DEF Claims
      <4>2. CASE q = r /\ run'[r].todo = run[r].todo
        BY <1>1, <3>1, <4>2 DEF Claims
      <4>3. CASE q = r /\ run'[r].todo # run[r].todo
        <5>0. <<>> # <<Img>> /\ <<>> # <<Used, Img>>
          OBVIOUS
        <5>1. run'[r].todo # <<>>
          BY <3>1, <4>3, <5>0 DEF Claims
        <5>2. run'[r].step = "open" /\ run'[r].todo = Tail(run[r].todo) /\ Len(run[r].todo) # 1
          BY <2>5, <4>3, <5>1
        <5>3. run'[r].todo = <<Img>>
          BY <3>1, <4>3, <5>2 DEF Claims, Holding
        <5>4. run[r].todo = <<Used, Img>>
          BY <1>2, <5>2, <5>3, PlanFacts, FileFacts
        <5> QED BY <1>1, <4>3, <5>4 DEF Claims
      <4> QED BY <4>1, <4>2, <4>3
    <3>2. ASSUME NEW q \in Runs, run'[q].todo = <<Img>> PROVE Synced(Used)'
      <4>1. CASE run[q].todo = <<Img>>
        BY <2>3, <4>1, FileFacts DEF OperatorInv, UsedOnce, Kept
      <4>2. CASE run[q].todo # <<Img>>
        <5>0. <<>> # <<Img>>
          OBVIOUS
        <5>1. q = r /\ run[r].good = TRUE /\ Len(run[r].todo) # 1
              /\ Tail(run[r].todo) = <<Img>>
          BY <2>5, <3>2, <4>2, <5>0
        <5>2. f0 = Used
          BY <1>2, <5>1, PlanFacts, FileFacts DEF File, f0
        <5> QED BY <2>4, <5>1, <5>2 DEF Synced
      <4> QED BY <4>1, <4>2
    <3> QED BY <1>1, <2>3, <3>1, <3>2, FileFacts DEF OperatorInv, UsedOnce, Kept
  <2>13. ReportedSynced'
    BY <1>1, <2>3, KeptReports
  <2> QED BY <2>6, <2>7, <2>8, <2>9, <2>10, <2>11, <2>12, <2>13 DEF OperatorInv
<1> QED BY <1>4, <1>5 DEF SyncDir

(* A report is of a safe file; a launch is the one claim's.                *)
LEMMA FinishStep ==
  ASSUME OperatorInv, NEW r \in Runs, Finish(r)
  PROVE  OperatorInv'
<1> DEFINE f0 == File(r)
<1>1. /\ run[r].step = "done" /\ Quit(r) /\ UNCHANGED <<dirs, files, drawn>>
  BY DEF Finish
<1>2. run[r].todo \in Plans /\ run[r].content \in Content /\ run[r].good = TRUE
  BY <1>1 DEF OperatorInv, Planned, TypeOK, RunState, Progress
<1>3. f0 \in Files /\ Synced(f0) /\ files[f0].content = run[r].content
  BY <1>1, <1>2, PlanFacts DEF OperatorInv, Progress, Synced, File
<1>4. /\ run' \in [Runs -> RunState] /\ \A q \in Runs : q # r => run'[q] = run[q]
      /\ run'[r].step = "gone" /\ run'[r].todo = <<>> /\ run'[r].good = TRUE
  <2>1. Gone \in RunState /\ Gone.step = "gone" /\ Gone.todo = <<>> /\ Gone.good = TRUE
    BY DEF Gone, RunState, Steps, Content
  <2> HIDE DEF Gone
  <2> QED BY <1>1, <2>1 DEF Quit, OperatorInv, TypeOK
<1>5. Planned'
  BY <1>4 DEF OperatorInv, Planned, File
<1>6. DirsSynced'
  BY <1>1, <1>4 DEF OperatorInv, DirsSynced, Holding
<1>7. ASSUME NEW q \in Runs PROVE Progress(q)'
  BY <1>1, <1>4 DEF OperatorInv, Progress, Holding, File
<1>8. Exclusive'
  BY <1>4 DEF OperatorInv, Exclusive, Holding, File
<1>9. <<>> # <<Pub>> /\ <<>> # <<Img>> /\ <<>> # <<Used, Img>>
  OBVIOUS
<1>10. KeyFirst'
  BY <1>1, <1>4, <1>9 DEF OperatorInv, KeyFirst, Synced
<1>11. /\ \A q \in Runs : Claims(q)' => q # r /\ Claims(q)
       /\ \A q \in Runs : run'[q].todo = <<Img>> => run[q].todo = <<Img>>
  BY <1>4, <1>9 DEF Claims
<1>12. (Synced(Used)' <=> Synced(Used)) /\ \A f \in Files : Synced(f)' <=> Synced(f)
  BY <1>1 DEF Synced
<1>13. CASE f0 = Img
  <2>1. launched' = [launched EXCEPT ![run[r].content[1]] = @ + 1] /\ UNCHANGED reported
    BY <1>13 DEF Finish, Img
  <2>2. run[r].todo = <<Img>> /\ Claims(r)
    BY <1>2, <1>13, PlanFacts DEF File, Claims
  <2>3. /\ Synced(Used) /\ \A c \in 1..MaxContexts : launched[c] = 0
        /\ \A q \in Runs : Claims(q) => q = r
    BY <2>2 DEF OperatorInv, UsedOnce
  <2>4. launched \in [1..MaxContexts -> Nat]
    BY DEF OperatorInv, TypeOK
  <2>5. /\ launched' \in [1..MaxContexts -> Nat]
        /\ \A c \in 1..MaxContexts : launched'[c] \in {0, 1}
    <3> DEFINE k == run[r].content[1]
               D == 1..MaxContexts
    <3>1. launched' = [launched EXCEPT ![k] = launched[k] + 1]
      BY <2>1
    <3> HIDE DEF k
    <3>2. \A c \in D : launched'[c] = IF c = k THEN launched[c] + 1 ELSE launched[c]
      BY <2>4, <3>1
    <3>3. \A c \in D : launched'[c] \in {0, 1}
      BY <2>3, <3>2
    <3>4. DOMAIN launched' = D /\ launched' = [c \in D |-> launched'[c]]
      BY <2>4, <3>1
    <3> HIDE DEF D
    <3>5. launched' \in [D -> Nat]
      BY <3>3, <3>4
    <3> QED BY <3>3, <3>5 DEF D
  <2>6. TypeOK'
    BY <1>1, <1>4, <2>1, <2>5 DEF OperatorInv, TypeOK
  <2>7. UsedOnce'
    <3>1. \A q \in Runs : ~Claims(q)' /\ run'[q].todo # <<Img>>
      BY <1>11, <2>3, <1>4, <1>9 DEF Claims
    <3> QED BY <1>12, <2>3, <2>5, <3>1 DEF UsedOnce
  <2>8. ReportedSynced'
    BY <1>1, <2>1 DEF OperatorInv, ReportedSynced, Synced
  <2> QED BY <1>5, <1>6, <1>7, <1>8, <1>10, <2>6, <2>7, <2>8 DEF OperatorInv
<1>14. CASE f0 # Img
  <2>1. reported' = reported \cup {<<f0, run[r].content>>} /\ UNCHANGED launched
    BY <1>14 DEF Finish, Img
  <2>2. TypeOK'
    BY <1>1, <1>2, <1>3, <1>4, <2>1 DEF OperatorInv, TypeOK
  <2>3. UsedOnce'
    BY <1>11, <1>12, <2>1 DEF OperatorInv, UsedOnce
  <2>4. ReportedSynced'
    <3> SUFFICES ASSUME NEW p \in reported' PROVE Synced(p[1]) /\ files[p[1]].content = p[2]
      BY <1>1 DEF ReportedSynced, Synced
    <3>1. CASE p \in reported
      BY <3>1 DEF OperatorInv, ReportedSynced
    <3>2. CASE p = <<f0, run[r].content>>
      <4>1. p[1] = f0 /\ p[2] = run[r].content
        BY <3>2
      <4> QED BY <1>3, <4>1
    <3> QED BY <2>1, <3>1, <3>2
  <2> QED BY <1>5, <1>6, <1>7, <1>8, <1>10, <2>2, <2>3, <2>4 DEF OperatorInv
<1> QED BY <1>13, <1>14

(* A power loss ends every run and takes only what was not synced.         *)
LEMMA PowerLossStep ==
  ASSUME OperatorInv, PowerLoss
  PROVE  OperatorInv'
<1> DEFINE present == {f \in Files : files[f].state # "absent"}
           made    == {d \in DOMAIN dirs : dirs[d] # "absent"}
<1>1. UNCHANGED <<drawn, reported, launched>> /\ run' = [r \in Runs |-> Gone]
  BY DEF PowerLoss
<1>2. PICK lostDirs \in SUBSET {d \in made : dirs[d] = "unsynced"},
           lost \in SUBSET {f \in present : ~files[f].entry},
           torn \in SUBSET {f \in present : ~files[f].data} :
        /\ dirs' = [d \in DOMAIN dirs |-> IF d \in made \ lostDirs THEN "synced" ELSE "absent"]
        /\ files' = [f \in Files |->
             IF f \notin {h \in present \ lost : DirOf(h) \notin lostDirs} THEN Absent
             ELSE [state |-> IF f \in torn THEN "partial" ELSE files[f].state,
                   content |-> IF f \in torn THEN <<>> ELSE files[f].content,
                   data |-> TRUE, entry |-> TRUE]]
  BY DEF PowerLoss
<1>3. /\ DOMAIN dirs = {"identity", "session"} /\ \A f \in Files : files[f] \in FileState
      /\ \A f \in Files : DirOf(f) \in {"identity", "session"}
  BY DEF OperatorInv, TypeOK, DirOf
<1>4. \A r \in Runs : run'[r].step = "gone" /\ run'[r].todo = <<>> /\ run'[r].good = TRUE
  BY <1>1 DEF Gone
<1>5. /\ dirs' \in [{"identity", "session"} -> {"absent", "unsynced", "synced"}]
      /\ \A d \in {"identity", "session"} : dirs[d] = "synced" => dirs'[d] = "synced"
  BY <1>2, <1>3
<1>6. <<>> \in Content /\ Absent \in FileState /\ Gone \in RunState /\ Absent.state = "absent"
  BY DEF Content, Absent, FileState, Gone, RunState, Steps
<1>7. ASSUME NEW f \in Files
      PROVE  /\ files'[f] \in FileState
             /\ files'[f].state # "absent" => files[f].state # "absent"
             /\ Synced(f) => Synced(f)' /\ files'[f].content = files[f].content
  <2>1. CASE f \notin {h \in present \ lost : DirOf(h) \notin lostDirs}
    <3>1. files'[f] = Absent
      BY <1>2, <2>1
    <3>2. ~Synced(f)
      <4> SUFFICES ASSUME Synced(f) PROVE FALSE
        OBVIOUS
      <4>1. f \in present \ lost
        BY <1>2 DEF Synced
      <4>2. dirs[DirOf(f)] = "synced"
        BY <4>1 DEF OperatorInv, DirsSynced
      <4> QED BY <1>2, <2>1, <4>1, <4>2
    <3> QED BY <1>6, <3>1, <3>2
  <2>2. CASE f \in {h \in present \ lost : DirOf(h) \notin lostDirs}
    <3>1. files'[f] = [state |-> IF f \in torn THEN "partial" ELSE files[f].state,
                       content |-> IF f \in torn THEN <<>> ELSE files[f].content,
                       data |-> TRUE, entry |-> TRUE]
      BY <1>2, <2>2
    <3>2. Synced(f) => f \notin torn
      BY <1>2 DEF Synced
    <3>3. files[f].state # "absent" /\ files[f] \in FileState
      BY <1>3, <2>2
    <3> QED BY <1>6, <3>1, <3>2, <3>3 DEF FileState, Synced
  <2> QED BY <2>1, <2>2
<1>8. Kept
  BY <1>7 DEF Kept
<1>9. TypeOK'
  <2>1. files' \in [Files -> FileState]
    <3>1. files' = [f \in Files |-> files'[f]]
      BY <1>2
    <3> QED BY <1>7, <3>1
  <2> QED BY <1>1, <1>5, <1>6, <2>1 DEF OperatorInv, TypeOK
<1>10. Planned' /\ Exclusive' /\ \A r \in Runs : Progress(r)'
  BY <1>4 DEF Planned, Exclusive, Progress, Holding
<1>11. DirsSynced'
  BY <1>3, <1>4, <1>5, <1>7 DEF OperatorInv, DirsSynced, Holding
<1>12. <<>> # <<Pub>> /\ <<>> # <<Img>> /\ <<>> # <<Used, Img>>
  OBVIOUS
<1>13. KeyFirst'
  BY <1>4, <1>7, <1>8, <1>12, FileFacts DEF OperatorInv, KeyFirst, Kept
<1>14. UsedOnce'
  BY <1>1, <1>4, <1>8, <1>12, FileFacts DEF OperatorInv, UsedOnce, Kept, Claims
<1>15. ReportedSynced'
  BY <1>1, <1>8, KeptReports
<1> QED BY <1>9, <1>10, <1>11, <1>13, <1>14, <1>15 DEF OperatorInv

(* Every step keeps the invariant.                                         *)
LEMMA OperatorStep == OperatorInv /\ [Next]_vars => OperatorInv'
<1> SUFFICES ASSUME OperatorInv, [Next]_vars PROVE OperatorInv'
  OBVIOUS
<1>1. ASSUME NEW r \in Runs, End(r) PROVE OperatorInv'
  BY <1>1, QuitStep DEF End
<1>2. CASE UNCHANGED vars
  <2>1. TypeOK' /\ Planned' /\ DirsSynced'
    BY <1>2 DEF vars, OperatorInv, TypeOK, Planned, DirsSynced, File
  <2>2. (\A r \in Runs : Progress(r)') /\ Exclusive' /\ KeyFirst'
    BY <1>2 DEF vars, OperatorInv, Progress, Exclusive, KeyFirst, Synced, File
  <2>3. UsedOnce' /\ ReportedSynced'
    BY <1>2 DEF vars, OperatorInv, UsedOnce, Claims, ReportedSynced, Synced
  <2> QED BY <2>1, <2>2, <2>3 DEF OperatorInv
<1> QED BY <1>1, <1>2, CommandsStep, DirStep, OpenNewStep, WriteStep, SyncFileStep, SyncDirStep,
           FinishStep, PowerLossStep DEF Next

(* The invariant holds throughout.                                         *)
LEMMA OperatorInvariant == Spec => []OperatorInv
BY OperatorInit, OperatorStep, PTL DEF Spec

-----------------------------------------------------------------------------
(* The guest is started at most once with a context, whatever races and    *)
(* dies.                                                                   *)
THEOREM ContextsLaunchOnce == Spec => []LaunchedOnce
<1>1. OperatorInv => LaunchedOnce
  BY DEF OperatorInv, TypeOK, UsedOnce, LaunchedOnce
<1> QED BY <1>1, OperatorInvariant, PTL

(* What was reported created, prepared or signed is there after any        *)
(* crashes, and a readable public identity has its key.                    *)
THEOREM ReportsAlwaysSurvive == Spec => []ReportsSurvive
<1>1. OperatorInv => ReportsSurvive
  <2> SUFFICES ASSUME OperatorInv PROVE ReportsSurvive
    OBVIOUS
  <2>1. \A p \in reported : Readable(p[1]) /\ files[p[1]].content = p[2]
    BY DEF OperatorInv, ReportedSynced, Synced, Readable
  <2>2. Readable(<<"pub">>) => Readable(<<"key">>) /\ files[<<"key">>].entry
    BY DEF OperatorInv, KeyFirst, Synced, Readable, Key, Pub
  <2> QED BY <2>1, <2>2 DEF ReportsSurvive
<1> QED BY <1>1, OperatorInvariant, PTL

(* No two packets are ever reported signed for one context and sequence    *)
(* number: both would be the content of the one file of that name.         *)
THEOREM PacketsAreUnique == Spec => []OnePacketPerSequence
<1>1. OperatorInv => OnePacketPerSequence
  <2> SUFFICES ASSUME OperatorInv, NEW p \in reported, NEW q \in reported, p[1] = q[1]
               PROVE  p = q
    BY DEF OnePacketPerSequence
  <2>1. p[2] = q[2]
    BY DEF OperatorInv, ReportedSynced
  <2>2. p \in Files \X Content /\ q \in Files \X Content
    BY DEF OperatorInv, TypeOK
  <2> QED BY <2>1, <2>2
<1> QED BY <1>1, OperatorInvariant, PTL

-----------------------------------------------------------------------------
(***************************************************************************)
(* Boot keeps ContextExact, for every set of devices: directories of any   *)
(* length and content, any records, and a read that may fail anywhere.     *)
(*                                                                         *)
(* The argument: read_item answers OK only when no read failed, no entry is*)
(* bad, and every entry of the wanted name has the wanted size (ReadOK); of*)
(* the entries of one name the later one is bad, so there is only one.  The*)
(* boot server keeps either that entry's item or zeroes, and the           *)
(* administrator holds what decodes from it (LaunchInv).                   *)
(***************************************************************************)

(* What an OK of read_item stands for.                                     *)
LEMMA ReadOK ==
  ASSUME NEW d \in Devices, NEW name, NEW length \in Nat,
         read_item(d, name, length) = "OK"
  PROVE  /\ d.stops = <<"never">>
         /\ \A i \in 1..Len(d.entries) : ~BadEntry(d.entries, i, name)
         /\ \E i \in 1..Len(d.entries) : d.entries[i].name = name
         /\ \A i \in 1..Len(d.entries) : d.entries[i].name = name => d.entries[i].size = length
<1>1. d.stops \in Stops(Len(d.entries))
  BY DevicesAssumption
<1> QED BY <1>1 DEF read_item, Stops

(* No record passes for one of another mode or another format.             *)
LEMMA OneFormat ==
  ASSUME NEW r
  PROVE  LET modes == {"OPERATOR", "FIXTURE"}
             read == {<<"launch", m>> : m \in {m \in modes : tcs_launch_decode(r, m) # NoLaunch}}
                \cup {<<"public", m>> : m \in {m \in modes : tcs_public_decode(r, m) # NoLaunch}}
                \cup (IF tcs_boot_decode_test(r) # NoLaunch THEN {<<"test">>} ELSE {})
         IN \A x, y \in read : x = y
<1>1. \A m : tcs_launch_decode(r, m) # NoLaunch => r.prefix = "LAUNCH" /\ r.mode = m
  BY DEF tcs_launch_decode, header
<1>2. \A m : tcs_public_decode(r, m) # NoLaunch => r.prefix = "PUB" /\ r.mode = m
  BY DEF tcs_public_decode, header
<1>3. tcs_boot_decode_test(r) # NoLaunch => r.prefix = "BOOT"
  BY DEF tcs_boot_decode_test
<1> QED BY <1>1, <1>2, <1>3

(* What the boot server holds follows from the device alone, and the       *)
(* administrator's context from what the boot server holds.                *)
LaunchInv ==
  /\ dev \in Devices
  /\ booted \in BOOLEAN /\ ready \in BOOLEAN
  /\ booted = FALSE => bytes = ZeroRecord /\ ready = FALSE
  /\ booted = TRUE =>
       /\ bytes = tcs_fwcfg_read(dev, "launch-context", ItemSize)
       /\ ready = TRUE => read_item(dev, "launch-context", ItemSize) = "OK"
  /\ admin # NoLaunch => /\ booted = TRUE /\ ready = TRUE
                         /\ admin = tcs_launch_decode(bytes, MODE)

(* The boot server's start, the administrator's one request and any other  *)
(* message keep it.                                                        *)
LEMMA LaunchInvHolds == LaunchSpec => []LaunchInv
<1>1. LaunchInit => LaunchInv
  BY DEF LaunchInit, LaunchInv
<1>2. LaunchInv /\ [LaunchNext]_LaunchVars => LaunchInv'
  <2> SUFFICES ASSUME LaunchInv, [LaunchNext]_LaunchVars PROVE LaunchInv'
    OBVIOUS
  <2>1. CASE BootInit
    <3>1. admin = NoLaunch
      BY <2>1 DEF BootInit, LaunchInv
    <3> QED BY <2>1, <3>1 DEF BootInit, LaunchInv
  <2>2. CASE AdminInit
    <3>1. reply'[1] = "DATA" => ready = TRUE /\ reply'[2] = bytes
      BY <2>2 DEF AdminInit, protected, LaunchInv
    <3> QED BY <2>2, <3>1 DEF AdminInit, LaunchInv
  <2>3. ASSUME NEW channel \in {0, 1}, NEW wellFormed \in BOOLEAN, Ask(channel, wellFormed)
        PROVE  LaunchInv'
    BY <2>3 DEF Ask, LaunchInv
  <2>4. CASE UNCHANGED LaunchVars
    BY <2>4 DEF LaunchVars, LaunchInv
  <2> QED BY <2>1, <2>2, <2>3, <2>4 DEF LaunchNext
<1> QED BY <1>1, <1>2, PTL DEF LaunchSpec

(* The administrator starts only from the one launch context the host gave *)
(* this image, undamaged and unambiguous, for every directory and every    *)
(* way a read can fail (tcs_fwcfg_read, tcs_launch_decode).                *)
THEOREM LaunchContextExact == LaunchSpec => []ContextExact
<1>1. LaunchInv => ContextExact
  <2> SUFFICES ASSUME LaunchInv PROVE ContextExact
    OBVIOUS
  <2> DEFINE ok == read_item(dev, "launch-context", ItemSize) = "OK"
             n == Len(dev.entries)
             at == CHOOSE i \in DOMAIN dev.entries : dev.entries[i].name = "launch-context"
  <2>1. /\ dev.entries \in Seq(Entry) /\ dev.item \in Seq(Record)
        /\ DOMAIN dev.entries = 1..n /\ DOMAIN dev.item = 1..n /\ n \in Nat
    BY DevicesAssumption DEF LaunchInv
  <2>2. ASSUME ok
        PROVE  /\ dev.stops = <<"never">>
               /\ at \in 1..n /\ dev.entries[at].name = "launch-context"
               /\ dev.entries[at].size = ItemSize
               /\ \A i \in 1..n : ~BadEntry(dev.entries, i, "launch-context")
    <3>1. dev \in Devices /\ ItemSize \in Nat
      BY BootAssumption DEF LaunchInv
    <3>2. /\ dev.stops = <<"never">>
          /\ \A i \in 1..n : ~BadEntry(dev.entries, i, "launch-context")
          /\ \E i \in 1..n : dev.entries[i].name = "launch-context"
          /\ \A i \in 1..n : dev.entries[i].name = "launch-context"
                            => dev.entries[i].size = ItemSize
      BY <2>2, <3>1, ReadOK
    <3>3. at \in DOMAIN dev.entries /\ dev.entries[at].name = "launch-context"
      BY <2>1, <3>2
    <3> QED BY <2>1, <3>2, <3>3
  <2>3. ok => bytes = dev.item[at] \/ booted = FALSE
    BY DEF LaunchInv, tcs_fwcfg_read
  <2>4. ~ok /\ booted = TRUE => bytes = ZeroRecord
    BY DEF LaunchInv, tcs_fwcfg_read
  <2> HIDE DEF ok, at
  <2>5. ASSUME admin # NoLaunch
        PROVE  /\ dev.stops = <<"never">>
               /\ \E i \in DOMAIN dev.entries :
                    /\ \A j \in DOMAIN dev.entries \ {i} :
                         /\ dev.entries[j].name # "launch-context"
                         /\ dev.entries[j].key # dev.entries[i].key
                    /\ dev.entries[i].name = "launch-context" /\ dev.entries[i].size = ItemSize
                    /\ dev.item[i] = tcs_launch_encode(admin, MODE)
               /\ (MODE = "FIXTURE") <=> (admin.key \in Fixtures)
    <3>1. ok /\ booted = TRUE /\ admin = tcs_launch_decode(bytes, MODE)
      BY <2>5 DEF LaunchInv, ok
    <3>2. bytes = dev.item[at] /\ at \in 1..n /\ bytes \in Record
      BY <3>1, <2>1, <2>2, <2>3
    <3>3. ASSUME NEW j \in 1..n, j # at
          PROVE  dev.entries[j].name # "launch-context" /\ dev.entries[j].key # dev.entries[at].key
      <4>1. /\ ~BadEntry(dev.entries, j, "launch-context")
            /\ ~BadEntry(dev.entries, at, "launch-context")
        BY <2>2, <3>1, <3>2
      <4>2. CASE j < at
        BY <4>1, <4>2, <2>2, <3>1, <3>2, <2>1 DEF BadEntry
      <4>3. CASE at < j
        BY <4>1, <4>3, <2>2, <3>1, <3>2, <2>1 DEF BadEntry
      <4> QED BY <4>2, <4>3, <3>2, <3>3, <2>1
    <3>4. /\ admin = Launch(bytes)
          /\ bytes.prefix = "LAUNCH" /\ bytes.mode = MODE
          /\ identity_valid(admin, MODE) /\ bytes.boot # Zero
      BY <3>1, <2>5 DEF tcs_launch_decode, header
    <3>5. bytes = tcs_launch_encode(admin, MODE)
      BY <3>2, <3>4 DEF tcs_launch_encode, Launch, Record
    <3>6. (MODE = "FIXTURE") <=> (admin.key \in Fixtures)
      BY <3>4 DEF identity_valid
    <3> QED BY <2>1, <2>2, <3>1, <3>2, <3>3, <3>5, <3>6
  <2>6. ASSUME booted, bytes # ZeroRecord
        PROVE  /\ \E i \in DOMAIN dev.entries : bytes = dev.item[i]
               /\ dev.stops = <<"never">>
    BY <2>1, <2>2, <2>3, <2>4, <2>6 DEF LaunchInv
  <2> QED BY <2>5, <2>6, OneFormat DEF ContextExact
<1> QED BY <1>1, LaunchInvHolds, PTL
=============================================================================
