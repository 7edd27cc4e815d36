----------------------- MODULE OutputPublicationProofs -----------------------
(***************************************************************************)
(* publish() of cli/_output.py keeps its promises for any number of        *)
(* commands, paths and links.  Two facts carry the argument: a command's   *)
(* file has a name other than the temporary one only when the command has  *)
(* published it, which it does once and with whole data; and a link, once  *)
(* compared, can vanish but not appear, so the comparison of output and    *)
(* inputs stays true until the output is named.                            *)
(***************************************************************************)
EXTENDS OutputPublication, TLAPS

Before == {"idle", "checking", "staging", "writing", "committing"}

(* What the step of a command says of its file and of its exit status.     *)
Progress(r) ==
    /\ request[r] = None <=> step[r] = "idle"
    /\ step[r] \in Before \cup {"failing"} => r \notin published
    /\ step[r] \in {"committing", "cleaning"} => data[r] = "whole"
    /\ step[r] = "cleaning" => r \in published
    /\ step[r] = "finishing" => r \in published /\ r \notin temp /\ request[r].more
    /\ r \in published => data[r] = "whole"
    /\ exit[r] # -1 => step[r] = "ended"

(* The comparison of the output with the inputs is still true.             *)
Compared(r) ==
    step[r] \in {"staging", "writing", "committing"} =>
        /\ request[r].out \notin request[r].inputs
        /\ \A i \in request[r].inputs :
             request[r].out \in Sources => dir[i] # request[r].out

Named == \A n \in Names : dir[n] \in Renderers => dir[n] \in published

Flat == \A s \in Sources : dir[s] \notin Sources

PInv ==
    /\ TypeOK /\ Named /\ Flat /\ ExitTruth
    /\ \A r \in Renderers : Progress(r) /\ Compared(r)

-----------------------------------------------------------------------------
(* Every directory is one without files of the commands at the start.      *)
LEMMA PInit == ASSUME Init PROVE PInv
  <1>1. TypeOK
    BY DEF Init, TypeOK, Steps
  <1>2. Named /\ Flat
    BY NamesAssumption DEF Init, Named, Flat
  <1>3. ExitTruth /\ \A r \in Renderers : Progress(r) /\ Compared(r)
    BY DEF Init, ExitTruth, Progress, Compared
  <1> QED
    BY <1>1, <1>2, <1>3 DEF PInv

(* Following a link leads to a path that is not a link.                    *)
LEMMA ResolveName ==
    ASSUME PInv, NEW n \in Names
    PROVE  /\ Resolve(n) \in Names
           /\ dir[n] \in Sources => Resolve(n) = dir[n]
           /\ dir[n] \notin Sources => Resolve(n) = n
  BY DEF PInv, TypeOK, Resolve, Names

(* What a step of one command must show: the others are not concerned.     *)
LEMMA OneCommand ==
    ASSUME PInv, NEW r \in Renderers, TypeOK', Named', Flat',
           NEW st \in Steps, step' = [step EXCEPT ![r] = st],
           \A q \in Renderers \ {r} :
              /\ request'[q] = request[q] /\ exit'[q] = exit[q] /\ data'[q] = data[q]
              /\ q \in published' <=> q \in published
              /\ q \in temp' <=> q \in temp,
           \A n \in Names : dir'[n] = dir[n] \/ dir'[n] \notin Sources,
           Progress(r)', Compared(r)',
           exit'[r] = 0 => r \in published' /\ r \notin temp',
           exit'[r] = 2 /\ r \in published' => r \in temp' \/ request'[r].more
    PROVE  PInv'
  <1>1. ExitTruth'
    BY DEF PInv, ExitTruth
  <1>2. ASSUME NEW q \in Renderers PROVE Progress(q)' /\ Compared(q)'
    <2>1. CASE q = r
      BY <2>1
    <2>2. CASE q # r
      <3>1. step'[q] = step[q] /\ Progress(q) /\ Compared(q)
        BY <2>2 DEF PInv, TypeOK
      <3>2. Progress(q)'
        BY <2>2, <3>1 DEF Progress
      <3>3. Compared(q)'
        <4> SUFFICES ASSUME step[q] \in {"staging", "writing", "committing"}
                     PROVE  /\ request[q].out \notin request[q].inputs
                            /\ \A i \in request[q].inputs :
                                 request[q].out \in Sources => dir'[i] # request[q].out
          BY <2>2, <3>1 DEF Compared
        <4>1. request[q].inputs \subseteq Names
          BY <3>1 DEF PInv, TypeOK, Progress, RequestType
        <4> QED
          BY <3>1, <4>1 DEF Compared
      <3> QED
        BY <3>2, <3>3
    <2> QED
      BY <2>1, <2>2
  <1> QED
    BY <1>1, <1>2 DEF PInv

(* The steps that leave the directory alone.                               *)
LEMMA PrivateSteps ==
    ASSUME PInv, NEW r \in Renderers,
           Start(r) \/ Check(r) \/ Stage(r) \/ Write(r) \/ Refuse(r) \/ Clean(r)
             \/ Finish(r) \/ Kill(r)
    PROVE  PInv' /\ dir' = dir /\ published' = published
  <1>1. dir' = dir /\ published' = published
    BY DEF Start, Check, Stage, Write, Refuse, Clean, Finish, Kill, files
  <1>2. Named' /\ Flat'
    BY <1>1 DEF PInv, Named, Flat
  <1>3. Progress(r) /\ Compared(r) /\ TypeOK /\ ExitTruth
    BY DEF PInv
  <1>4. CASE Start(r)
    <2>1. PICK q \in RequestType : request' = [request EXCEPT ![r] = q]
      BY <1>4 DEF Start
    <2>2. q # None /\ request'[r] = q /\ step' = [step EXCEPT ![r] = "checking"]
      BY <1>3, <1>4, <2>1, DistinctAssumption DEF Start, Goto, TypeOK
    <2>3. TypeOK' /\ "checking" \in Steps
      BY <1>1, <1>3, <1>4, <2>1, <2>2 DEF Start, files, TypeOK, Steps
    <2>4. Progress(r)' /\ Compared(r)'
      BY <1>1, <1>3, <1>4, <2>2
         DEF Start, files, At, Progress, Compared, Before, TypeOK
    <2>5. /\ UNCHANGED <<dir, data, temp, exit, published>>
          /\ \A p \in Renderers \ {r} : request'[p] = request[p]
          /\ exit[r] = -1
      BY <1>3, <1>4, <2>1 DEF Start, files, TypeOK, Progress, At
    <2>6. \A p \in Renderers \ {r} :
            /\ request'[p] = request[p] /\ exit'[p] = exit[p] /\ data'[p] = data[p]
            /\ p \in published' <=> p \in published
            /\ p \in temp' <=> p \in temp
      BY <2>5
    <2>7. /\ \A n \in Names : dir'[n] = dir[n] \/ dir'[n] \notin Sources
          /\ exit'[r] # 0 /\ exit'[r] # 2
      BY <2>5
    <2>8. step' = [step EXCEPT ![r] = "checking"]
      BY <2>2
    <2> QED
      BY <1>1, <1>2, <2>3, <2>4, <2>6, <2>7, <2>8, OneCommand
  <1>5. CASE Check(r)
    <2>1. CASE Aliases(r)
      BY <1>1, <1>2, <1>3, <1>5, <2>1, OneCommand
         DEF Check, Quit, files, At, Goto, Steps, TypeOK, Progress, Compared, Before, ExitTruth
    <2>2. CASE ~Aliases(r)
      <3>1. request[r] \in RequestType /\ At(r, "checking")
        BY <1>3, <1>5 DEF Check, Progress, TypeOK, At
      <3>2. /\ request[r].out \notin request[r].inputs
            /\ \A i \in request[r].inputs :
                 request[r].out \in Sources => dir[i] # request[r].out
        <4>1. \A i \in request[r].inputs : Resolve(request[r].out) # Resolve(i)
          BY <2>2 DEF Aliases
        <4>2. \A i \in request[r].inputs : i \in Names
          BY <3>1 DEF RequestType
        <4>3. request[r].out \in Sources => Resolve(request[r].out) = request[r].out
          BY <3>1, ResolveName DEF RequestType, PInv, Flat
        <4> QED
          BY <4>1, <4>2, <4>3, ResolveName
      <3> QED
        BY <1>1, <1>2, <1>3, <1>5, <2>2, <3>2, OneCommand
           DEF Check, files, At, Goto, Steps, TypeOK, Progress, Compared, Before, ExitTruth
    <2> QED
      BY <2>1, <2>2
  <1>6. CASE Stage(r)
    BY <1>1, <1>2, <1>3, <1>6, OneCommand
       DEF Stage, Quit, At, Goto, Steps, TypeOK, Progress, Compared, Before, ExitTruth
  <1>7. CASE Write(r)
    BY <1>1, <1>2, <1>3, <1>7, OneCommand
       DEF Write, At, Goto, Steps, TypeOK, Progress, Compared, Before, ExitTruth
  <1>8. CASE Refuse(r)
    BY <1>1, <1>2, <1>3, <1>8, OneCommand
       DEF Refuse, files, At, Goto, Steps, TypeOK, Progress, Compared, Before, ExitTruth
  <1>9. CASE Clean(r)
    BY <1>1, <1>2, <1>3, <1>9, OneCommand
       DEF Clean, Leave, Succeed, Quit, At, Goto, Steps, TypeOK, Progress, Compared, Before, ExitTruth
  <1>10. CASE Kill(r)
    BY <1>1, <1>2, <1>3, <1>10, OneCommand
       DEF Kill, files, At, Goto, Steps, TypeOK, Progress, Compared, Before, ExitTruth
  <1>11. CASE Finish(r)
    BY <1>1, <1>2, <1>3, <1>11, OneCommand
       DEF Finish, Succeed, Quit, files, At, Goto, Steps, TypeOK, Progress, Compared,
           Before, ExitTruth
  <1> QED
    BY <1>1, <1>4, <1>5, <1>6, <1>7, <1>8, <1>9, <1>10, <1>11

(* The output gets its name: whole, and no input changes under it.         *)
LEMMA NamingSteps ==
    ASSUME PInv, NEW r \in Renderers, Replace(r) \/ Link(r)
    PROVE  /\ PInv' /\ InputsKept
           /\ request[r].out \in Names /\ r \notin published
           /\ published' = published \cup {r} /\ request' = request
           /\ dir' = [dir EXCEPT ![request[r].out] = r]
           /\ dir[request[r].out] = None \/ request[r].force
  <1> DEFINE out == request[r].out
  <1>1. /\ Progress(r) /\ Compared(r) /\ TypeOK /\ ExitTruth /\ At(r, "committing")
        /\ request[r] \in RequestType /\ out \in Names
    BY DEF PInv, Replace, Link, Progress, TypeOK, At, RequestType
  <1>2. /\ dir' = [dir EXCEPT ![out] = r] /\ published' = published \cup {r}
        /\ step' = [step EXCEPT ![r] = "cleaning"]
        /\ UNCHANGED <<data, request, exit>> /\ temp' \subseteq temp
        /\ \A q \in Renderers \ {r} : q \in temp' <=> q \in temp
    BY DEF Replace, Link, Name, Goto
  <1>3. r \notin published /\ data[r] = "whole" /\ exit[r] = -1
    BY <1>1 DEF Progress, At, Before
  <1>4. TypeOK'
    BY <1>1, <1>2 DEF TypeOK, Steps
  <1>5. Named' /\ Flat'
    BY <1>1, <1>2, NamesAssumption DEF PInv, Named, Flat, TypeOK, Names
  <1>6. Progress(r)' /\ Compared(r)'
    BY <1>1, <1>2, <1>3 DEF Progress, Compared, Before, TypeOK, At
  <1>7. PInv'
    <2>1. \A n \in Names : dir'[n] = dir[n] \/ dir'[n] \notin Sources
      BY <1>1, <1>2, NamesAssumption DEF TypeOK
    <2>2. "cleaning" \in Steps
      BY DEF Steps
    <2>3. \A q \in Renderers \ {r} :
            /\ request'[q] = request[q] /\ exit'[q] = exit[q] /\ data'[q] = data[q]
            /\ q \in published' <=> q \in published
            /\ q \in temp' <=> q \in temp
      BY <1>2
    <2>4. exit'[r] # 0 /\ exit'[r] # 2
      BY <1>2, <1>3
    <2>5. step' = [step EXCEPT ![r] = "cleaning"]
      BY <1>2
    <2> QED
      BY <1>4, <1>5, <1>6, <2>1, <2>2, <2>3, <2>4, <2>5, OneCommand
  <1>8. InputsKept
    <2> SUFFICES ASSUME NEW i \in request[r].inputs PROVE Holds(i)' = Holds(i)
      BY <1>2 DEF InputsKept
    <2>1. i \in Names /\ i # out /\ (out \in Sources => dir[i] # out)
      BY <1>1 DEF RequestType, Compared, At
    <2>2. dir'[i] = dir[i]
      BY <1>1, <1>2, <2>1 DEF TypeOK
    <2>3. Resolve(i)' = Resolve(i) /\ Resolve(i) # out /\ Resolve(i) \in Names
      BY <2>1, <2>2, ResolveName DEF Resolve
    <2> QED
      BY <1>1, <1>2, <2>3 DEF Holds, TypeOK
  <1> QED
    BY <1>1, <1>2, <1>3, <1>7, <1>8 DEF Replace, Link

(* What the user does to a path.                                           *)
LEMMA UserSteps ==
    ASSUME PInv, NEW n \in Names, Remove(n) \/ Save(n)
    PROVE  /\ PInv'
           /\ UNCHANGED <<request, published>>
           /\ \E m \in Names, x \in {User, None} : dir' = [dir EXCEPT ![m] = x]
  <1>1. PICK m \in Names, x \in {User, None} : dir' = [dir EXCEPT ![m] = x]
    BY ResolveName DEF Remove, Save
  <1>2. UNCHANGED <<data, temp, step, request, exit, published>>
    BY DEF Remove, Save
  <1>3. TypeOK' /\ Named' /\ Flat'
    BY <1>1, <1>2, NamesAssumption DEF PInv, TypeOK, Named, Flat, Names
  <1>4. \A k \in Names : dir'[k] = dir[k] \/ dir'[k] \notin Sources
    BY <1>1, NamesAssumption DEF PInv, TypeOK
  <1>5. ASSUME NEW q \in Renderers PROVE Progress(q)' /\ Compared(q)'
    <2>1. Progress(q) /\ Compared(q)
      BY DEF PInv
    <2>2. step[q] # "idle" => request[q].inputs \subseteq Names
      BY <2>1 DEF PInv, TypeOK, Progress, RequestType
    <2> QED
      BY <1>2, <1>4, <2>1, <2>2 DEF Progress, Compared
  <1> QED
    BY <1>1, <1>2, <1>3, <1>5 DEF PInv, ExitTruth

-----------------------------------------------------------------------------
(* A command's file under a path is whole, so that a path holds in the     *)
(* abstract specification what it holds in the directory.                  *)
LEMMA WholeFiles ==
    ASSUME PInv PROVE OutputsWhole /\ [n \in Names |-> File(n)] = dir
  BY DEF PInv, Named, Progress, OutputsWhole, File, TypeOK

(* One step keeps the invariant and is a step of AtomicOutput.             *)
LEMMA PNext ==
    ASSUME PInv, [Next]_vars
    PROVE  PInv' /\ InputsKept /\ [Output!Next]_(Output!vars)
  <1> DEFINE file == [n \in Names |-> File(n)]
  <1>1. file = dir
    BY WholeFiles
  <1>2. CASE UNCHANGED vars
    BY <1>2 DEF vars, files, PInv, TypeOK, Named, Flat, ExitTruth, Progress, Compared,
       InputsKept, Output!vars, Forced, File
  <1>3. ASSUME NEW r \in Renderers, RendererStep(r)
        PROVE  PInv' /\ InputsKept /\ [Output!Next]_(Output!vars)
    <2>1. CASE Replace(r) \/ Link(r)
      <3>1. /\ PInv' /\ InputsKept /\ dir' = [dir EXCEPT ![request[r].out] = r]
            /\ request[r].out \in Names /\ published' = published \cup {r}
            /\ request' = request /\ r \notin published
            /\ dir[request[r].out] = None \/ request[r].force
        BY <2>1, NamingSteps
      <3>2. file' = dir' /\ Forced' = Forced
        <4>1. \A n \in Names : File(n)' = dir'[n]
          BY <3>1 DEF PInv, Named, Progress, File
        <4>2. dir' \in [Names -> Renderers \cup Sources \cup {User, None}]
          BY <3>1 DEF PInv, TypeOK
        <4> QED
          BY <3>1, <4>1, <4>2 DEF Forced
      <3>3. request[r].force => r \in Forced
        BY <2>1 DEF Forced, PInv, Progress, Replace, Link, At
      <3>4. Output!Publish(r, request[r].out)
        BY <1>1, <3>1, <3>2, <3>3 DEF Output!Publish
      <3> QED
        BY <3>1, <3>4 DEF Output!Next
    <2>2. CASE ~(Replace(r) \/ Link(r))
      <3>1. PInv' /\ dir' = dir /\ published' = published
        BY <1>3, <2>2, PrivateSteps DEF RendererStep
      <3>2. file' = file /\ InputsKept
        BY <1>1, <3>1 DEF InputsKept, PInv, Named, Progress, File, TypeOK
      <3>3. Forced' = Forced \/ (Forced' = Forced \cup {r} /\ r \notin Forced)
        <4>1. CASE Start(r)
          <5>1. PICK q \in RequestType : request' = [request EXCEPT ![r] = q]
            BY <4>1 DEF Start
          <5>2. request[r] = None /\ request \in [Renderers -> RequestType \cup {None}]
            BY <4>1 DEF Start, PInv, Progress, At, TypeOK
          <5> QED
            BY <5>1, <5>2, DistinctAssumption DEF Forced
        <4>2. CASE ~Start(r)
          <5>1. request' = request
            BY <1>3, <2>2, <4>2 DEF RendererStep, Check, Stage, Write, Refuse, Clean, Finish, Kill
          <5> QED
            BY <5>1 DEF Forced
        <4> QED
          BY <4>1, <4>2
      <3>4. CASE Forced' = Forced
        BY <3>1, <3>2, <3>4 DEF Output!vars
      <3>5. CASE Forced' = Forced \cup {r} /\ r \notin Forced
        <4>1. request' # request
          BY <3>5 DEF Forced
        <4>2. Start(r)
          BY <1>3, <2>2, <4>1 DEF RendererStep, Check, Stage, Write, Refuse, Clean, Finish, Kill
        <4>3. r \notin published
          BY <4>2 DEF Start, At, PInv, Progress, Before
        <4>4. Output!Begin(r)
          BY <3>1, <3>2, <3>5, <4>3 DEF Output!Begin
        <4> QED
          BY <3>1, <3>2, <4>4 DEF Output!Next
      <3> QED
        BY <3>1, <3>2, <3>3, <3>4, <3>5
    <2> QED
      BY <2>1, <2>2
  <1>4. ASSUME NEW n \in Names, Remove(n) \/ Save(n)
        PROVE  PInv' /\ InputsKept /\ [Output!Next]_(Output!vars)
    <2>1. PInv' /\ UNCHANGED <<request, published>>
      BY <1>4, UserSteps
    <2>2. PICK m \in Names, x \in {User, None} : dir' = [dir EXCEPT ![m] = x]
      BY <1>4, UserSteps
    <2>3. file' = dir' /\ Forced' = Forced /\ InputsKept
      BY <2>1 DEF Forced, InputsKept, PInv, Named, Progress, File, TypeOK
    <2>4. Output!Remove(m) \/ Output!Save(m)
      BY <1>1, <2>1, <2>2, <2>3 DEF Output!Remove, Output!Save
    <2> QED
      BY <2>1, <2>3, <2>4 DEF Output!Next
  <1> QED
    BY <1>2, <1>3, <1>4 DEF Next

-----------------------------------------------------------------------------
(* The invariant holds in every behaviour.                                 *)
THEOREM PublicationInvariance == Spec => []PInv
  <1>1. Init => PInv
    BY PInit
  <1>2. PInv /\ [Next]_vars => PInv'
    BY PNext
  <1> QED
    BY <1>1, <1>2, PTL DEF Spec

(* No path ever holds a half-written deliverable.                          *)
THEOREM OutputsWholeAlways == Spec => []OutputsWhole
  <1>1. PInv => OutputsWhole
    BY WholeFiles
  <1> QED
    BY <1>1, PublicationInvariance, PTL

(* The exit status tells whether the deliverable took its place.           *)
THEOREM ExitTruthAlways == Spec => []ExitTruth
  <1>1. PInv => ExitTruth
    BY DEF PInv
  <1> QED
    BY <1>1, PublicationInvariance, PTL

(* A command never changes what one of its own inputs holds.               *)
THEOREM InputsKeptAlways == Spec => InputsKeptProperty
  <1>1. PInv /\ [Next]_vars => [InputsKept]_vars
    BY PNext
  <1> QED
    BY <1>1, PublicationInvariance, PTL DEF Spec, InputsKeptProperty

(* Every path changes as AtomicOutput says.                                *)
THEOREM PublicationRefinement == Spec => ImplementsAtomicOutput
  <1>1. Init => Output!Init
    <2> SUFFICES ASSUME Init PROVE Output!Init
      OBVIOUS
    <2>1. PInv
      BY PInit
    <2>2. \A n \in Names : File(n) = dir[n]
      BY <2>1 DEF PInv, Named, Progress, File
    <2>3. \A r \in Renderers, n \in Names : [m \in Names |-> File(m)][n] # r
      BY <2>2, NamesAssumption DEF Init
    <2>4. Forced = {} /\ published = {}
      BY DEF Init, Forced
    <2> QED
      BY <2>3, <2>4 DEF Output!Init
  <1>2. PInv /\ [Next]_vars => [Output!Next]_(Output!vars)
    BY PNext
  <1> QED
    BY <1>1, <1>2, PublicationInvariance, PTL DEF Spec, ImplementsAtomicOutput, Output!Spec
=============================================================================
