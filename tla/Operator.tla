------------------------------ MODULE Operator ------------------------------
(***************************************************************************)
(* The operator's host tool: runs of it, any number at once, on one        *)
(* identity directory and one session directory, with runs killed at any   *)
(* point, calls that fail, and the host losing power.                      *)
(*                                                                         *)
(* A run checks what it needs, then makes directories and files, each only *)
(* if its name is free, and reports only after the file and the directory  *)
(* entry were synced.  A file is absent, or partial, or whole with its     *)
(* content; synced tells whether its data and its entry would survive a    *)
(* power loss.  A context is named by the number of the fresh random value *)
(* in it.  Refused inputs (paths, permissions, an approval for another     *)
(* command, a malformed number) end a run before it does anything here.    *)
(*                                                                         *)
(* reported and launched are history: what runs told the operator, and how *)
(* often the guest was started with a context.                             *)
(***************************************************************************)
EXTENDS Integers, Sequences

CONSTANTS Runs,         \* processes that may run the tool
          Sequences,    \* command sequence numbers that are signed
          Commands,     \* commands to sign for a sequence number
          MaxContexts   \* how many contexts are drawn

ASSUME OperatorAssumption == MaxContexts \in Nat

VARIABLES dirs, files, run, drawn, reported, launched

vars == <<dirs, files, run, drawn, reported, launched>>

Request(n) == <<"request", n>>
IdentityFiles == {<<"key">>, <<"pub">>}
SessionFiles == {<<"context">>, <<"used">>, <<"img">>} \cup {Request(n) : n \in Sequences}
Files == IdentityFiles \cup SessionFiles
DirOf(f) == IF f \in IdentityFiles THEN "identity" ELSE "session"

Absent == [state |-> "absent", content |-> <<>>, data |-> FALSE, entry |-> FALSE]
Gone == [step |-> "gone", dir |-> "none", todo |-> <<>>, content |-> <<>>, good |-> TRUE]

Init ==
  /\ dirs = [d \in {"identity", "session"} |-> "absent"]
  /\ files = [f \in Files |-> Absent]
  /\ run = [r \in Runs |-> Gone]
  /\ drawn = 0
  /\ reported = {}
  /\ launched = [c \in 1..MaxContexts |-> 0]

(* read_file: the whole file, or nothing.                                  *)
Readable(f) == files[f].state = "whole"

-----------------------------------------------------------------------------
(* The commands, up to the first thing they make.  show and review make    *)
(* nothing.                                                                *)

Begin(r, step, dir, todo, content) ==
  /\ run[r] = Gone
  /\ run' = [run EXCEPT ![r] = [step |-> step, dir |-> dir, todo |-> todo,
                                content |-> content, good |-> TRUE]]
  /\ UNCHANGED <<dirs, files, reported, launched>>

create_identity(r) ==
  Begin(r, "mkdir", "identity", <<<<"key">>, <<"pub">>>>, <<>>) /\ UNCHANGED drawn

context_create(r) ==
  /\ Readable(<<"pub">>)
  /\ drawn < MaxContexts
  /\ drawn' = drawn + 1
  /\ Begin(r, "mkdir", "session", <<<<"context">>>>, <<drawn'>>)

(* prepare and key_read succeed; the packet is for the context read here.  *)
sign(r, n, c) ==
  /\ Readable(<<"pub">>) /\ Readable(<<"context">>) /\ Readable(<<"key">>)
  /\ Begin(r, "open", "session", <<Request(n)>>, files[<<"context">>].content \o <<n, c>>)
  /\ UNCHANGED drawn

launch_guest(r) ==
  /\ Readable(<<"pub">>) /\ Readable(<<"context">>)
  /\ Begin(r, "open", "session", <<<<"used">>, <<"img">>>>, files[<<"context">>].content)
  /\ UNCHANGED drawn

-----------------------------------------------------------------------------
(* The steps of directory(path, true) and of write_new.                    *)

To(r, step) == run' = [run EXCEPT ![r].step = step]
Quit(r) == run' = [run EXCEPT ![r] = Gone]
File(r) == Head(run[r].todo)

mkdirat(r) ==
  /\ run[r].step = "mkdir"
  /\ IF dirs[run[r].dir] = "absent"
     THEN dirs' = [dirs EXCEPT ![run[r].dir] = "unsynced"] /\ To(r, "sync parent")
     ELSE UNCHANGED dirs /\ Quit(r)
  /\ UNCHANGED <<files, drawn, reported, launched>>

SyncParent(r) ==
  /\ run[r].step = "sync parent"
  /\ dirs' = [dirs EXCEPT ![run[r].dir] = "synced"]
  /\ To(r, "open")
  /\ UNCHANGED <<files, drawn, reported, launched>>

(* Mutant: a file is created over an old one.                              *)
OpenNewMutant(r) ==
  /\ run[r].step = "open"
  /\ files' = [files EXCEPT ![File(r)] = [Absent EXCEPT !.state = "partial"]]
  /\ To(r, "write")
  /\ UNCHANGED <<dirs, drawn, reported, launched>>

(* Mutant: a name that is taken counts as written by an earlier attempt.   *)
OpenRetryMutant(r) ==
  /\ run[r].step = "open"
  /\ IF files[File(r)].state = "absent"
     THEN /\ files' = [files EXCEPT ![File(r)] = [Absent EXCEPT !.state = "partial"]]
          /\ To(r, "write")
     ELSE /\ run' = [run EXCEPT ![r].step = "done", ![r].todo = <<@[Len(@)]>>]
          /\ UNCHANGED files
  /\ UNCHANGED <<dirs, drawn, reported, launched>>

OpenNew(r) ==
  /\ run[r].step = "open"
  /\ IF files[File(r)].state = "absent"
     THEN /\ files' = [files EXCEPT ![File(r)] = [Absent EXCEPT !.state = "partial"]]
          /\ To(r, "write")
     ELSE UNCHANGED files /\ Quit(r)
  /\ UNCHANGED <<dirs, drawn, reported, launched>>

(* The loop of writes; a failed or short one leaves the file partial.      *)
Write(r) ==
  /\ run[r].step = "write"
  /\ \/ /\ files' = [files EXCEPT ![File(r)].state = "whole",
                                  ![File(r)].content = run[r].content]
        /\ To(r, "sync file")
     \/ /\ run' = [run EXCEPT ![r].step = "sync file", ![r].good = FALSE]
        /\ UNCHANGED files
  /\ UNCHANGED <<dirs, drawn, reported, launched>>

SyncFile(r) ==
  /\ run[r].step = "sync file"
  /\ \/ files' = [files EXCEPT ![File(r)].data = TRUE] /\ To(r, "sync dir")
     \/ UNCHANGED files /\ run' = [run EXCEPT ![r].step = "sync dir", ![r].good = FALSE]
  /\ UNCHANGED <<dirs, drawn, reported, launched>>

(* The end of write_new: on to the next file, or refused.                  *)
Written(r) ==
  IF run[r].good
  THEN run' = [run EXCEPT ![r].step = IF Len(run[r].todo) = 1 THEN "done" ELSE "open",
                          ![r].todo = IF Len(@) = 1 THEN @ ELSE Tail(@)]
  ELSE Quit(r)

(* Mutant: the directory is not synced before the run goes on.             *)
SyncDirMutant(r) ==
  /\ run[r].step = "sync dir"
  /\ Written(r)
  /\ UNCHANGED <<dirs, files, drawn, reported, launched>>

SyncDir(r) ==
  /\ run[r].step = "sync dir"
  /\ \/ /\ files' = [f \in Files |->
                       IF DirOf(f) = run[r].dir /\ files[f].state # "absent"
                       THEN [files[f] EXCEPT !.entry = TRUE] ELSE files[f]]
        /\ Written(r)
     \/ UNCHANGED files /\ Quit(r)
  /\ UNCHANGED <<dirs, drawn, reported, launched>>

(* The report, or for a launch the exec.                                   *)
Finish(r) ==
  /\ run[r].step = "done"
  /\ IF File(r) = <<"img">>
     THEN /\ launched' = [launched EXCEPT ![run[r].content[1]] = @ + 1]
          /\ UNCHANGED reported
     ELSE /\ reported' = reported \cup {<<File(r), run[r].content>>}
          /\ UNCHANGED launched
  /\ Quit(r)
  /\ UNCHANGED <<dirs, files, drawn>>

(* The run is killed, or a call that makes nothing fails: it ends here.    *)
End(r) ==
  /\ run[r] # Gone
  /\ Quit(r)
  /\ UNCHANGED <<dirs, files, drawn, reported, launched>>

(* The host loses power: what was not synced is kept, torn or gone.        *)
PowerLoss ==
  LET present == {f \in Files : files[f].state # "absent"}
      made    == {d \in DOMAIN dirs : dirs[d] # "absent"}
  IN /\ run' = [r \in Runs |-> Gone]
     /\ \E lostDirs \in SUBSET {d \in made : dirs[d] = "unsynced"},
           lost \in SUBSET {f \in present : ~files[f].entry},
           torn \in SUBSET {f \in present : ~files[f].data} :
          LET kept == {f \in present \ lost : DirOf(f) \notin lostDirs}
          IN /\ dirs' = [d \in DOMAIN dirs |-> IF d \in made \ lostDirs THEN "synced" ELSE "absent"]
             /\ files' = [f \in Files |->
                  IF f \notin kept THEN Absent
                  ELSE [state |-> IF f \in torn THEN "partial" ELSE files[f].state,
                        content |-> IF f \in torn THEN <<>> ELSE files[f].content,
                        data |-> TRUE, entry |-> TRUE]]
     /\ UNCHANGED <<drawn, reported, launched>>

Next ==
  \/ \E r \in Runs :
       \/ create_identity(r) \/ context_create(r) \/ launch_guest(r)
       \/ \E n \in Sequences, c \in Commands : sign(r, n, c)
       \/ mkdirat(r) \/ SyncParent(r)
       \/ OpenNew(r) \/ Write(r) \/ SyncFile(r) \/ SyncDir(r)
       \/ Finish(r) \/ End(r)
  \/ PowerLoss

Spec == Init /\ [][Next]_vars

-----------------------------------------------------------------------------
(* The guest is started at most once with a context, however many          *)
(* launches race and wherever they or the host die between writing         *)
(* launch.used and exec.                                                   *)
LaunchedOnce == \A c \in 1..MaxContexts : launched[c] <= 1

(* At most one packet is ever reported signed for a context and sequence   *)
(* number, however many runs race or die: two packets of one sequence      *)
(* would let whoever submits them choose the command.                      *)
OnePacketPerSequence ==
  \A n \in Sequences, p, q \in reported :
    p[1] = Request(n) /\ q[1] = Request(n) /\ p[2][1] = q[2][1] => p = q

(* What was reported is there: after "created" the key and the public half *)
(* are whole, after "prepared" the context, after "signed" the packet that *)
(* was signed, whatever crashes follow; and a public identity that can be  *)
(* read has its key, so that no context is made for an identity that       *)
(* cannot sign.                                                            *)
ReportsSurvive ==
  /\ \A p \in reported : Readable(p[1]) /\ files[p[1]].content = p[2]
  /\ Readable(<<"pub">>) => Readable(<<"key">>) /\ files[<<"key">>].entry
=============================================================================
