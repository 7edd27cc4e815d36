---------------------------- MODULE AtomicOutput ----------------------------
(***************************************************************************)
(* What cli/_output.py promises of a deliverable: its path changes at once *)
(* from what it was to the whole deliverable, and an existing path changes *)
(* only for a command that was given --force.  Others may save and remove  *)
(* files at any time.  There are no temporary files, errors or kills here. *)
(***************************************************************************)
CONSTANTS Renderers, Names, User, None

VARIABLES
    file,     \* what each path holds: a link, a file of the user or of a
              \* renderer, or None
    forced,   \* renderers that were given --force
    done      \* renderers whose deliverable was put at a path

vars == <<file, forced, done>>

Init ==
    /\ \A r \in Renderers, n \in Names : file[n] # r
    /\ forced = {} /\ done = {}

Begin(r) ==
    /\ r \notin forced /\ r \notin done
    /\ forced' = forced \cup {r}
    /\ UNCHANGED <<file, done>>

Publish(r, n) ==
    /\ r \notin done
    /\ file[n] = None \/ r \in forced
    /\ file' = [file EXCEPT ![n] = r]
    /\ done' = done \cup {r}
    /\ UNCHANGED forced

Remove(n) ==
    /\ file' = [file EXCEPT ![n] = None]
    /\ UNCHANGED <<forced, done>>

Save(n) ==
    /\ file' = [file EXCEPT ![n] = User]
    /\ UNCHANGED <<forced, done>>

Next ==
    \/ \E r \in Renderers : Begin(r)
    \/ \E r \in Renderers, n \in Names : Publish(r, n)
    \/ \E n \in Names : Remove(n) \/ Save(n)

Spec == Init /\ [][Next]_vars
=============================================================================
