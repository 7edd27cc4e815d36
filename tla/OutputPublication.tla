-------------------------- MODULE OutputPublication --------------------------
(***************************************************************************)
(* publish() of cli/_output.py, as the commands render-html-hub, -pptx-deck*)
(* and -docx-memo call it: several commands run in one directory, any of   *)
(* them may be killed between two system calls, and the user saves and     *)
(* removes files meanwhile.  A directory entry is a file, named by who     *)
(* wrote it, or a symbolic link; each command writes one file of its own   *)
(* under a temporary name and then gives it the output's name.             *)
(* Links are followed once and only the user's removals change them.       *)
(***************************************************************************)
EXTENDS Integers

CONSTANTS
    Renderers,   \* runs of a rendering command
    Outputs,     \* paths that may be links
    Sources,     \* paths that links lead to
    User,        \* everybody else who writes files
    None

Names == Outputs \cup Sources

ASSUME NamesAssumption ==
    /\ User \notin Renderers /\ None \notin Renderers \cup Sources
    /\ None # User /\ (Renderers \cup {User}) \cap Sources = {}

VARIABLES
    dir,       \* path -> who wrote the file there, the source it links to, None
    data,      \* renderer -> its own file: "none", "partial" or "whole"
    temp,      \* renderers whose temporary name exists
    step,      \* renderer -> the system call it will make next
    request,   \* renderer -> the arguments of publish, None before
    exit,      \* renderer -> its exit status; -1 while it runs or was killed
    published  \* history: renderers whose file was given the output's name

files == <<dir, data, temp>>
vars  == <<files, step, request, exit, published>>

Steps == {"idle", "checking", "staging", "writing", "committing",
          "cleaning", "failing", "finishing", "ended"}

(* more: the command still has to print its summary (pptx) or to remove its*)
(* staging folder (docx) when publish returns.                             *)
RequestType ==
    [out : Names, inputs : SUBSET Names, force : BOOLEAN, more : BOOLEAN]

(* A request is never null, and no name is the mark of a torn file.        *)
ASSUME DistinctAssumption ==
    None \notin RequestType /\ "torn" \notin Renderers \cup Sources \cup {User, None}

At(r, s) == step[r] = s

Goto(r, s) == step' = [step EXCEPT ![r] = s]

(* Path.resolve().                                                         *)
Resolve(n) == IF dir[n] \in Sources THEN dir[n] ELSE n

-----------------------------------------------------------------------------
(* A rendering command                                                     *)

(* The content is rendered; publish is called.                             *)
Start(r) ==
    /\ At(r, "idle")
    /\ \E q \in RequestType : request' = [request EXCEPT ![r] = q]
    /\ Goto(r, "checking")
    /\ UNCHANGED <<files, exit, published>>

(* An error that is reported: exit status 2.                               *)
Quit(r) ==
    /\ exit' = [exit EXCEPT ![r] = 2]
    /\ Goto(r, "ended")

(* Mutant of Aliases: links are not followed.                              *)
AliasesByName(r) == request[r].out \in request[r].inputs

Aliases(r) ==
    Resolve(request[r].out) \in {Resolve(i) : i \in request[r].inputs}

Check(r) ==
    /\ At(r, "checking")
    /\ IF Aliases(r) THEN Quit(r) ELSE Goto(r, "staging") /\ UNCHANGED exit
    /\ UNCHANGED <<files, request, published>>

(* Mutant of Stage: the output itself is opened for writing.               *)
StageInPlace(r) ==
    /\ At(r, "staging")
    /\ request[r].force \/ dir[request[r].out] = None
    /\ dir' = [dir EXCEPT ![request[r].out] = r]
    /\ data' = [data EXCEPT ![r] = "partial"]
    /\ Goto(r, "writing")
    /\ UNCHANGED <<temp, request, exit, published>>

(* mkdir and mkstemp: a temporary name that no other command has.          *)
Stage(r) ==
    /\ At(r, "staging")
    /\ \/ /\ data' = [data EXCEPT ![r] = "partial"]
          /\ temp' = temp \cup {r}
          /\ Goto(r, "writing")
          /\ UNCHANGED exit
       \/ Quit(r) /\ UNCHANGED <<data, temp>>
    /\ UNCHANGED <<dir, request, published>>

Write(r) ==
    /\ At(r, "writing")
    /\ \/ data' = [data EXCEPT ![r] = "whole"] /\ Goto(r, "committing")
       \/ Goto(r, "failing") /\ UNCHANGED data
    /\ UNCHANGED <<dir, temp, request, exit, published>>

Name(r) ==
    /\ dir' = [dir EXCEPT ![request[r].out] = r]
    /\ published' = published \cup {r}
    /\ Goto(r, "cleaning")

(* os.replace moves the temporary name over whatever the path holds.       *)
Replace(r) ==
    /\ At(r, "committing") /\ request[r].force
    /\ Name(r)
    /\ temp' = temp \ {r}
    /\ UNCHANGED <<data, request, exit>>

(* Mutant of Link: the existence test was made before.                     *)
LinkUnguarded(r) ==
    /\ At(r, "committing") /\ ~request[r].force
    /\ Name(r)
    /\ UNCHANGED <<data, temp, request, exit>>

(* os.link refuses a path that exists, be it a dangling link.              *)
Link(r) ==
    /\ At(r, "committing") /\ ~request[r].force
    /\ dir[request[r].out] = None
    /\ Name(r)
    /\ UNCHANGED <<data, temp, request, exit>>

(* The path exists, or the system call fails otherwise.                    *)
Refuse(r) ==
    /\ At(r, "committing")
    /\ Goto(r, "failing")
    /\ UNCHANGED <<files, request, exit, published>>

Succeed(r) ==
    /\ exit' = [exit EXCEPT ![r] = 0]
    /\ Goto(r, "ended")

(* publish returns or raises.                                              *)
Leave(r) ==
    IF At(r, "failing") THEN Quit(r)
    ELSE IF request[r].more THEN Goto(r, "finishing") /\ UNCHANGED exit
    ELSE Succeed(r)

(* Mutant of Clean: a failed unlink is ignored.                            *)
CleanQuietly(r) ==
    /\ At(r, "cleaning") \/ At(r, "failing")
    /\ temp' \in {temp, temp \ {r}}
    /\ Leave(r)
    /\ UNCHANGED <<dir, data, request, published>>

(* The finally clause: unlink, which may fail when there is a name to take.*)
Clean(r) ==
    /\ At(r, "cleaning") \/ At(r, "failing")
    /\ \/ temp' = temp \ {r} /\ Leave(r)
       \/ r \in temp /\ Quit(r) /\ UNCHANGED temp
    /\ UNCHANGED <<dir, data, request, published>>

(* What the command does after publish may still fail.                     *)
Finish(r) ==
    /\ At(r, "finishing")
    /\ Succeed(r) \/ Quit(r)
    /\ UNCHANGED <<files, request, published>>

(* The process is killed.                                                  *)
Kill(r) ==
    /\ ~At(r, "idle") /\ ~At(r, "ended")
    /\ Goto(r, "ended")
    /\ UNCHANGED <<files, request, exit, published>>

-----------------------------------------------------------------------------
(* Everybody else                                                          *)

Remove(n) ==
    /\ dir[n] # None
    /\ dir' = [dir EXCEPT ![n] = None]
    /\ UNCHANGED <<data, temp, step, request, exit, published>>

(* Saving through a link saves what it leads to.                           *)
Save(n) ==
    /\ dir' = [dir EXCEPT ![Resolve(n)] = User]
    /\ UNCHANGED <<data, temp, step, request, exit, published>>

-----------------------------------------------------------------------------
Init ==
    /\ dir \in [Names -> Sources \cup {User, None}]
    /\ \A s \in Sources : dir[s] \notin Sources
    /\ data = [r \in Renderers |-> "none"]
    /\ temp = {}
    /\ step = [r \in Renderers |-> "idle"]
    /\ request = [r \in Renderers |-> None]
    /\ exit = [r \in Renderers |-> -1]
    /\ published = {}

RendererStep(r) ==
    \/ Start(r) \/ Check(r) \/ Stage(r) \/ Write(r)
    \/ Replace(r) \/ Link(r) \/ Refuse(r) \/ Clean(r)
    \/ Finish(r) \/ Kill(r)

Next ==
    \/ \E r \in Renderers : RendererStep(r)
    \/ \E n \in Names : Remove(n) \/ Save(n)

Spec == Init /\ [][Next]_vars

-----------------------------------------------------------------------------
(* Properties                                                              *)

(* Every variable keeps its shape.                                         *)
TypeOK ==
    /\ dir \in [Names -> Renderers \cup Sources \cup {User, None}]
    /\ data \in [Renderers -> {"none", "partial", "whole"}]
    /\ temp \subseteq Renderers
    /\ step \in [Renderers -> Steps]
    /\ request \in [Renderers -> RequestType \cup {None}]
    /\ exit \in [Renderers -> {-1, 0, 2}]
    /\ published \subseteq Renderers

(* No path ever holds a half-written deliverable, wherever its command or  *)
(* another one is interrupted.                                             *)
OutputsWhole ==
    \A n \in Names : dir[n] \in Renderers => data[dir[n]] = "whole"

(* The exit status can be relied on: 0 means that the deliverable took its *)
(* place and left no temporary file; 2 means that the place was not taken, *)
(* or that only the temporary file could not be removed, or that the       *)
(* command failed in what it does after publish.                           *)
ExitTruth ==
    \A r \in Renderers :
        /\ exit[r] = 0 => r \in published /\ r \notin temp
        /\ exit[r] = 2 /\ r \in published => r \in temp \/ request[r].more

(* What a path holds when it is opened.                                    *)
Holds(n) == dir[Resolve(n)]

(* Taking the output's name never changes what an input of the same command*)
(* holds, though both are only compared before the file is written.        *)
InputsKept ==
    \A r \in published' \ published :
        \A i \in request[r].inputs : Holds(i)' = Holds(i)

InputsKeptProperty == [][InputsKept]_vars

File(n) ==
    IF dir[n] \in Renderers /\ data[dir[n]] # "whole" THEN "torn" ELSE dir[n]

Forced == {r \in Renderers : request[r] # None /\ request[r].force}

Output ==
    INSTANCE AtomicOutput
    WITH Renderers <- Renderers, Names <- Names, User <- User, None <- None,
         file <- [n \in Names |-> File(n)], forced <- Forced, done <- published

(* Every path changes as AtomicOutput says: at once, and over an existing  *)
(* file only with --force, whatever other commands and the user do between *)
(* the system calls.                                                       *)
ImplementsAtomicOutput == Output!Spec
=============================================================================
