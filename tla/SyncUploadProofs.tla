-------------------------- MODULE SyncUploadProofs --------------------------
(***************************************************************************)
(* Proofs about SyncUpload, for any number of files.                       *)
(***************************************************************************)
EXTENDS SyncUpload, FiniteSetTheorems, TLAPS

Steps == {"todo", "decode", "derive", "create", "hydrate", "undo"} \cup Kinds \cup Answered

\* How Fail and Goto move one file and leave the others where they are.
LEMMA FailType ==
  ASSUME TypeOk, NEW f \in Files, NEW kinds \in Seq(Kinds), Fail(f, kinds)
  PROVE  /\ pc' \in [Files -> Steps]
         /\ undo' \in Seq(Kinds)
         /\ pc'[f] \in {"undo", "failed"}
         /\ \A g \in Files \ {f} : pc'[g] = pc[g]
         /\ temps' \subseteq temps
  BY DEF TypeOk, Fail, Goto, CleanUp, Steps, Answered

\* The same of Goto.
LEMMA GotoType ==
  ASSUME TypeOk, NEW f \in Files, NEW step \in Steps, Goto(f, step)
  PROVE  /\ pc' \in [Files -> Steps]
         /\ pc'[f] = step
         /\ \A g \in Files \ {f} : pc'[g] = pc[g]
  BY DEF TypeOk, Goto, Steps

\* The lists of kinds the handler undoes.
LEMMA UndoLists ==
  /\ <<>> \in Seq(Kinds)
  /\ <<"original", "watermarked", "preview">> \in Seq(Kinds)
  /\ \A k \in Kinds : PutBefore(k) \in Seq(Kinds) /\ Following(k) \in Steps
  BY DEF Kinds, PutBefore, Following, Steps

\* What the observation adds concerns the call and the file it is about.
LEMMA NoteType ==
  ASSUME TypeOk, NEW c \in Calls, NEW f \in Files, NEW o, Note(c, f, o)
  PROVE  /\ doubtful \subseteq doubtful' /\ doubtful' \subseteq Calls \X Files
         /\ \A d \in Calls, g \in Files : <<d, g>> # <<c, f>> =>
              (<<d, g>> \in doubtful' <=> <<d, g>> \in doubtful)
  BY DEF TypeOk, Note

-----------------------------------------------------------------------------
\* Every variable keeps its type when the handler takes a step for a file.
LEMMA FileTypeOk ==
  ASSUME TypeOk, NEW f \in Files, FileStep(f)
  PROVE  TypeOk'
<1>1. CASE ProcessStep(f)
  <2>1. CASE ReceiveFile(f)
    <3>1. temps' \subseteq Kinds \X Files
      <4>1. CASE Fail(f, <<>>) BY <4>1, UndoLists, FailType DEF TypeOk
      <4>2. CASE temps' = temps \cup {<<"original", f>>} BY <4>2 DEF TypeOk, Kinds
      <4> QED BY <2>1, <4>1, <4>2 DEF ReceiveFile
    <3>2. pc' \in [Files -> Steps] /\ undo' \in Seq(Kinds)
      <4>1. CASE Fail(f, <<>>) BY <4>1, UndoLists, FailType
      <4>2. CASE Goto(f, "decode") /\ UNCHANGED undo BY <4>2, GotoType DEF TypeOk, Steps
      <4> QED BY <2>1, <4>1, <4>2 DEF ReceiveFile
    <3> QED BY <2>1, <3>1, <3>2 DEF ReceiveFile, TypeOk, Steps
  <2>2. CASE Decode(f)
    <3>1. worker' \in [Files -> [Derived -> {"idle", "running", "done", "error"}]]
      BY <2>2 DEF Decode, TypeOk
    <3>2. temps' \subseteq Kinds \X Files
      <4>1. CASE Fail(f, <<>>) BY <4>1, UndoLists, FailType DEF TypeOk
      <4>2. CASE temps' = temps \cup {<<k, f>> : k \in Derived}
        BY <4>2 DEF TypeOk, Kinds, Derived
      <4> QED BY <2>2, <4>1, <4>2 DEF Decode
    <3>3. pc' \in [Files -> Steps] /\ undo' \in Seq(Kinds)
      <4>1. CASE Fail(f, <<>>) BY <4>1, UndoLists, FailType
      <4>2. CASE Goto(f, "derive") /\ UNCHANGED undo BY <4>2, GotoType DEF TypeOk, Steps
      <4> QED BY <2>2, <4>1, <4>2 DEF Decode
    <3> QED BY <2>2, <3>1, <3>2, <3>3 DEF Decode, TypeOk, Steps
  <2>3. ASSUME NEW kind \in Derived, Derive(f, kind) PROVE TypeOk'
    <3>1. worker' \in [Files -> [Derived -> {"idle", "running", "done", "error"}]]
      BY <2>3 DEF Derive, TypeOk
    <3>2. temps' \subseteq Kinds \X Files
      BY <2>3 DEF Derive, TypeOk, Kinds, Derived
    <3> QED BY <2>3, <3>1, <3>2 DEF Derive, TypeOk
  <2>4. CASE Join(f)
    BY <2>4, UndoLists, FailType, GotoType DEF Join, TypeOk, Steps, Kinds
  <2> QED BY <1>1, <2>1, <2>2, <2>3, <2>4 DEF ProcessStep
<1>2. ASSUME NEW kind \in Kinds, PutObject(f, kind) PROVE TypeOk'
  <2>1. objects' \subseteq Kinds \X Files
    BY <1>2 DEF PutObject, TypeOk
  <2>2. pc' \in [Files -> Steps] /\ undo' \in Seq(Kinds)
        /\ temps' \subseteq Kinds \X Files
    BY <1>2, UndoLists, FailType, GotoType DEF PutObject, TypeOk
  <2>3. doubtful' \subseteq Calls \X Files
    BY <1>2, NoteType DEF PutObject, Calls
  <2> QED BY <1>2, <2>1, <2>2, <2>3 DEF PutObject, TypeOk, Steps
<1>3. CASE CreatePhoto(f)
  <2>1. pc' \in [Files -> Steps] /\ undo' \in Seq(Kinds)
        /\ temps' \subseteq Kinds \X Files
    BY <1>3, UndoLists, FailType, GotoType DEF CreatePhoto, TypeOk, Steps
  <2>2. doubtful' \subseteq Calls \X Files
    BY <1>3, NoteType DEF CreatePhoto, Calls
  <2> QED BY <1>3, <2>1, <2>2 DEF CreatePhoto, TypeOk, Steps
<1>4. CASE Hydrate(f)
  BY <1>4, GotoType DEF Hydrate, CleanUp, TypeOk, Steps, Answered
<1>5. CASE RemoveObject(f)
  <2>1. Tail(undo) \in Seq(Kinds)
    BY <1>5 DEF RemoveObject, TypeOk
  <2>2. pc' \in [Files -> Steps] /\ undo' \in Seq(Kinds) /\ temps' \subseteq Kinds \X Files
    BY <1>5, <2>1, FailType DEF RemoveObject, TypeOk
  <2>3. doubtful' \subseteq Calls \X Files
    BY <1>5, NoteType DEF RemoveObject, Calls
  <2> QED BY <1>5, <2>2, <2>3 DEF RemoveObject, TypeOk, Steps
<1> QED BY <1>1, <1>2, <1>3, <1>4, <1>5 DEF FileStep

\* TypeOk is inductive: every variable has its type in every reachable state.
LEMMA NextTypeOk == TypeOk /\ [Next]_vars => TypeOk'
<1> SUFFICES ASSUME TypeOk, [Next]_vars PROVE TypeOk'
  OBVIOUS
<1>1. CASE BeginUpload BY <1>1 DEF BeginUpload, local, TypeOk
<1>2. CASE EndUpload BY <1>2 DEF EndUpload, local, TypeOk
<1>3. CASE Disconnect BY <1>3 DEF Disconnect, local, TypeOk
<1>4. CASE UNCHANGED vars BY <1>4 DEF vars, local, TypeOk
<1> QED BY <1>1, <1>2, <1>3, <1>4, FileTypeOk DEF Next, HandlerStep

\* The initial types.
LEMMA InitTypeOk == Init => TypeOk
<1> SUFFICES ASSUME Init PROVE TypeOk
  OBVIOUS
<1>1. worker \in [Files -> [Derived -> {"idle", "running", "done", "error"}]]
  BY DEF Init
<1> QED BY <1>1, UndoLists DEF Init, TypeOk

\* Every variable of the synchronous upload has its type in every state.
THEOREM SyncTypeCorrect == Spec => []TypeOk
  BY InitTypeOk, NextTypeOk, PTL DEF Spec

-----------------------------------------------------------------------------
\* A step for f touches neither the objects nor the row of another file.
LEMMA OtherFiles ==
  ASSUME TypeOk, NEW f \in Files, FileStep(f), NEW g \in Files \ {f}
  PROVE  /\ pc'[g] = pc[g]
         /\ g \in rows' <=> g \in rows
         /\ g \in scheduled' <=> g \in scheduled
         /\ \A k \in Kinds : <<k, g>> \in objects' <=> <<k, g>> \in objects
<1>1. CASE ProcessStep(f) \/ Hydrate(f)
  BY <1>1 DEF ProcessStep, ReceiveFile, Decode, Derive, Join, Hydrate, Fail, Goto, TypeOk
<1>2. ASSUME NEW kind \in Kinds, PutObject(f, kind)
      PROVE /\ pc'[g] = pc[g] /\ rows' = rows /\ scheduled' = scheduled
            /\ \A k \in Kinds : <<k, g>> \in objects' <=> <<k, g>> \in objects
  BY <1>2 DEF PutObject, Fail, Goto, TypeOk
<1>3. CASE CreatePhoto(f)
  BY <1>3 DEF CreatePhoto, Fail, Goto, TypeOk
<1>4. CASE RemoveObject(f)
  BY <1>4 DEF RemoveObject, Fail, Goto, TypeOk
<1> QED BY <1>1, <1>2, <1>3, <1>4 DEF FileStep

\* ProgressInv survives a step for f, as far as f itself is concerned.
LEMMA OwnProgress ==
  ASSUME TypeOk, ProgressInv, NEW f \in Files, FileStep(f)
  PROVE  /\ \A k \in PutBy(pc'[f]) : <<k, f>> \in objects'
         /\ pc'[f] \in {"hydrate", "created"} => f \in rows' \cap scheduled'
<1>1. CASE ProcessStep(f)
  <2>1. CASE Fail(f, <<>>) BY <1>1, <2>1 DEF Fail, Goto, TypeOk, PutBy
  <2>2. ASSUME NEW step \in {"decode", "derive", "original"}, Goto(f, step)
        PROVE  pc'[f] \notin {"hydrate", "created"} /\ PutBy(pc'[f]) = {}
    BY <2>2 DEF Goto, TypeOk, PutBy
  <2>3. ASSUME NEW kind \in Derived, Derive(f, kind)
        PROVE  UNCHANGED <<pc, objects, rows, scheduled>>
    BY <2>3 DEF Derive
  <2> QED BY <1>1, <2>1, <2>2, <2>3 DEF ProcessStep, ReceiveFile, Decode, Join, ProgressInv
<1>2. ASSUME NEW kind \in Kinds, PutObject(f, kind)
      PROVE  /\ \A k \in PutBy(pc'[f]) : <<k, f>> \in objects'
             /\ pc'[f] \notin {"hydrate", "created"}
  <2>1. CASE Fail(f, PutBefore(kind))
    BY <1>2, <2>1 DEF Fail, Goto, TypeOk, PutBy
  <2>2. CASE Goto(f, Following(kind)) /\ objects' = objects \cup {<<kind, f>>}
    <3>1. pc'[f] = Following(kind) /\ pc[f] = kind
      BY <1>2, <2>2 DEF PutObject, Goto, TypeOk
    <3>2. \A k \in PutBy(kind) : <<k, f>> \in objects
      BY <3>1 DEF ProgressInv
    <3>3. PutBy(Following(kind)) = PutBy(kind) \cup {kind}
      BY DEF PutBy, Following, Kinds
    <3> QED BY <2>2, <3>1, <3>2, <3>3 DEF Following, Kinds
  <2> QED BY <1>2, <2>1, <2>2 DEF PutObject, Applied, Errs
<1>3. CASE CreatePhoto(f)
  <2>1. \A k \in Kinds : <<k, f>> \in objects
    BY <1>3 DEF CreatePhoto, ProgressInv, PutBy
  <2>2. CASE Fail(f, <<"original", "watermarked", "preview">>)
    BY <2>2 DEF Fail, Goto, TypeOk, PutBy
  <2>3. CASE /\ Goto(f, "hydrate") /\ scheduled' = scheduled \cup {f}
             /\ rows' = rows \cup {f}
    BY <1>3, <2>1, <2>3 DEF CreatePhoto, Goto, TypeOk, PutBy
  <2> QED BY <1>3, <2>2, <2>3 DEF CreatePhoto, Applied, Errs
<1>4. CASE Hydrate(f)
  <2>1. /\ \A k \in Kinds : <<k, f>> \in objects'
        /\ f \in rows' \cap scheduled'
    BY <1>4 DEF Hydrate, ProgressInv, PutBy
  <2> QED BY <1>4, <2>1 DEF Hydrate, Goto, TypeOk, PutBy, Kinds
<1>5. CASE RemoveObject(f)
  BY <1>5 DEF RemoveObject, Fail, Goto, TypeOk, PutBy
<1> QED BY <1>1, <1>2, <1>3, <1>4, <1>5 DEF FileStep

\* ProgressInv is inductive.
LEMMA NextProgress == TypeOk /\ ProgressInv /\ [Next]_vars => ProgressInv'
<1> SUFFICES ASSUME TypeOk, ProgressInv, [Next]_vars PROVE ProgressInv'
  OBVIOUS
<1>1. ASSUME NEW f \in Files, FileStep(f) PROVE ProgressInv'
  <2> SUFFICES ASSUME NEW g \in Files
               PROVE  /\ \A k \in PutBy(pc'[g]) : <<k, g>> \in objects'
                      /\ pc'[g] \in {"hydrate", "created"} => g \in rows' \cap scheduled'
    BY DEF ProgressInv
  <2>1. CASE g = f BY <1>1, <2>1, OwnProgress
  <2>2. CASE g # f
    <3>1. \A k \in PutBy(pc[g]) : <<k, g>> \in objects /\ k \in Kinds
      BY DEF ProgressInv, PutBy, Kinds
    <3> QED BY <1>1, <2>2, <3>1, OtherFiles DEF ProgressInv
  <2> QED BY <2>1, <2>2
<1>2. CASE BeginUpload \/ EndUpload \/ Disconnect \/ UNCHANGED vars
  BY <1>2 DEF BeginUpload, EndUpload, Disconnect, vars, ProgressInv
<1> QED BY <1>1, <1>2 DEF Next, HandlerStep

\* It holds before the request begins.
LEMMA InitProgress == Init => ProgressInv
  BY DEF Init, ProgressInv, PutBy, Kinds

\* What a client is told was created is a whole photo, whatever fails and
\* whenever the client goes away.
THEOREM CreatedAreWhole == Spec => []CreatedIsWhole
<1>1. TypeOk /\ ProgressInv => CreatedIsWhole
  BY DEF ProgressInv, CreatedIsWhole, PutBy, Objects
<1> QED BY <1>1, InitTypeOk, NextTypeOk, InitProgress, NextProgress, PTL DEF Spec

-----------------------------------------------------------------------------
\* A step for f notes nothing of another file, and of f only what is about its call.
LEMMA Doubts ==
  ASSUME TypeOk, NEW f \in Files, FileStep(f)
  PROVE  /\ doubtful \subseteq doubtful'
         /\ \A g \in Files \ {f} : <<"create", g>> \in doubtful' <=> <<"create", g>> \in doubtful
<1>1. CASE ProcessStep(f) \/ Hydrate(f)
  BY <1>1 DEF ProcessStep, ReceiveFile, Decode, Derive, Join, Hydrate
<1>2. ASSUME NEW c \in Calls, NEW o, Note(c, f, o)
      PROVE  /\ doubtful \subseteq doubtful'
             /\ \A g \in Files \ {f} : <<"create", g>> \in doubtful' <=> <<"create", g>> \in doubtful
  BY <1>2, NoteType DEF Calls
<1>3. ASSUME NEW kind \in Kinds, PutObject(f, kind) PROVE \E o : Note("put", f, o)
  BY <1>3 DEF PutObject
<1>4. CASE CreatePhoto(f)
  <2>1. \E o : Note("create", f, o) BY <1>4 DEF CreatePhoto
  <2> QED BY <1>2, <2>1 DEF Calls
<1>5. CASE RemoveObject(f)
  <2>1. \E o : Note("remove", f, o) BY <1>5 DEF RemoveObject
  <2> QED BY <1>2, <2>1 DEF Calls
<1> QED BY <1>1, <1>2, <1>3, <1>4, <1>5 DEF FileStep, Calls

\* What PhotoInv says of one file.
Photo(f) ==
  /\ f \in rows => pc[f] \in {"hydrate", "created", "undo", "failed"}
  /\ f \in rows /\ <<"create", f>> \notin doubtful =>
       pc[f] # "undo" /\ \A k \in Kinds : <<k, f>> \in objects
  /\ f \in scheduled => f \in rows

\* PhotoInv survives a step for f, as far as f itself is concerned.
LEMMA OwnPhoto ==
  ASSUME NEW f \in Files, TypeOk, ProgressInv, Photo(f), FileStep(f)
  PROVE  Photo(f)'
<1>1. CASE ProcessStep(f)
  <2>1. CASE pc[f] \in {"todo", "decode", "derive"}
    BY <1>1, <2>1 DEF ProcessStep, ReceiveFile, Decode, Derive, Join, Photo
  <2>2. ASSUME NEW kind \in Derived, Derive(f, kind)
        PROVE  UNCHANGED <<pc, objects, rows, scheduled, doubtful>>
    BY <2>2 DEF Derive
  <2> QED BY <1>1, <2>1, <2>2 DEF ProcessStep, ReceiveFile, Decode, Join, Photo
<1>2. ASSUME NEW kind \in Kinds, PutObject(f, kind)
      PROVE  f \notin rows' /\ f \notin scheduled'
  BY <1>2 DEF PutObject, Photo, Kinds
<1>3. CASE CreatePhoto(f)
  <2>1. f \notin rows /\ f \notin scheduled /\ \A k \in Kinds : <<k, f>> \in objects'
    BY <1>3 DEF CreatePhoto, ProgressInv, Photo, PutBy
  <2>2. PICK o \in Of("create") :
          /\ rows' = IF Applied(o) THEN rows \cup {f} ELSE rows
          /\ Note("create", f, o)
          /\ IF Errs(o)
             THEN Fail(f, <<"original", "watermarked", "preview">>) /\ UNCHANGED scheduled
             ELSE /\ scheduled' = scheduled \cup {f}
                  /\ Goto(f, "hydrate") /\ UNCHANGED <<undo, temps>>
    BY <1>3 DEF CreatePhoto
  <2>3. CASE ~Errs(o)
    BY <2>1, <2>2, <2>3 DEF Applied, Errs, Goto, TypeOk, Photo
  <2>4. CASE Errs(o) /\ ~Applied(o)
    BY <2>1, <2>2, <2>4 DEF Photo
  <2>5. CASE Errs(o) /\ Applied(o)
    <3>1. <<"create", f>> \in doubtful'
      BY <2>2, <2>5 DEF Note, Misleads
    <3>2. pc'[f] \in {"undo", "failed"}
      BY <2>2, <2>5, UndoLists, FailType
    <3> QED BY <2>1, <2>2, <2>5, <3>1, <3>2 DEF Photo
  <2> QED BY <2>3, <2>4, <2>5
<1>4. CASE Hydrate(f)
  <2>1. pc'[f] \in {"created", "failed"}
    BY <1>4 DEF Hydrate, Goto, TypeOk
  <2>2. \A k \in Kinds : <<k, f>> \in objects'
    BY <1>4 DEF Hydrate, ProgressInv, PutBy
  <2> QED BY <1>4, <2>1, <2>2 DEF Hydrate, Photo
<1>5. CASE RemoveObject(f)
  <2>1. pc'[f] \in {"undo", "failed"}
    BY <1>5 DEF RemoveObject, Fail, Goto, TypeOk
  <2>2. f \in rows => <<"create", f>> \in doubtful'
    BY <1>5, Doubts DEF RemoveObject, Photo
  <2> QED BY <1>5, <2>1, <2>2 DEF RemoveObject, Photo
<1> QED BY <1>1, <1>2, <1>3, <1>4, <1>5 DEF FileStep, Photo

\* PhotoInv is inductive.
LEMMA NextPhoto ==
  ASSUME TypeOk, ProgressInv, PhotoInv, [Next]_vars
  PROVE  PhotoInv'
<1>0. \A g \in Files : Photo(g)
  BY DEF PhotoInv, Photo, Objects
<1>1. ASSUME NEW f \in Files, FileStep(f), NEW g \in Files PROVE Photo(g)'
  <2>1. CASE g = f BY <1>0, <1>1, <2>1, OwnPhoto
  <2>2. CASE g # f
    BY <1>0, <1>1, <2>2, OtherFiles, Doubts DEF Photo
  <2> QED BY <2>1, <2>2
<1>2. ASSUME BeginUpload \/ EndUpload \/ Disconnect \/ UNCHANGED vars, NEW g \in Files
      PROVE  Photo(g)'
  BY <1>0, <1>2 DEF BeginUpload, EndUpload, Disconnect, vars, Photo
<1>3. \A g \in Files : Photo(g)'
  BY <1>1, <1>2 DEF Next, HandlerStep
<1> QED BY <1>3 DEF PhotoInv, Photo, Objects

\* No photo whose commit was answered truly ever lacks one of its objects, and
\* only photos are recognized, whatever else fails and whenever the client goes.
THEOREM PhotosStayWhole == Spec => []RowsAreWhole
<1>1. Init => PhotoInv
  BY DEF Init, PhotoInv
<1>2. TypeOk /\ ProgressInv /\ PhotoInv /\ [Next]_vars => PhotoInv'
  BY NextPhoto
<1>3. TypeOk /\ PhotoInv => RowsAreWhole
  BY DEF TypeOk, PhotoInv, RowsAreWhole
<1> QED BY <1>1, <1>2, <1>3, InitTypeOk, NextTypeOk, InitProgress, NextProgress, PTL DEF Spec

-----------------------------------------------------------------------------
\* A step for f neither makes a temporary file nor runs a goroutine of another.
LEMMA OtherTemps ==
  ASSUME TypeOk, NEW f \in Files, FileStep(f), NEW g \in Files \ {f}
  PROVE  /\ worker'[g] = worker[g]
         /\ \A k \in Kinds : <<k, g>> \in temps' => <<k, g>> \in temps
<1>1. ASSUME NEW kinds, Fail(f, kinds) PROVE temps' \subseteq temps
  BY <1>1 DEF Fail, CleanUp
<1>2. CASE ReceiveFile(f)
  BY <1>1, <1>2 DEF ReceiveFile
<1>3. CASE Decode(f)
  BY <1>1, <1>3 DEF Decode, TypeOk
<1>4. ASSUME NEW kind \in Derived, Derive(f, kind)
      PROVE  worker'[g] = worker[g] /\ \A k \in Kinds : <<k, g>> \in temps' => <<k, g>> \in temps
  BY <1>4 DEF Derive, TypeOk
<1>5. CASE Join(f)
  BY <1>1, <1>5 DEF Join
<1>6. ASSUME NEW kind \in Kinds, PutObject(f, kind)
      PROVE  UNCHANGED worker /\ temps' \subseteq temps
  BY <1>1, <1>6 DEF PutObject
<1>7. CASE CreatePhoto(f) \/ Hydrate(f) \/ RemoveObject(f)
  BY <1>1, <1>7 DEF CreatePhoto, Hydrate, RemoveObject, CleanUp
<1> QED BY <1>2, <1>3, <1>4, <1>5, <1>6, <1>7 DEF FileStep, ProcessStep

\* What WorkerInv says of one file.
Work(f) ==
  /\ \A kind \in Derived : worker[f][kind] = "running" => pc[f] = "derive"
  /\ pc[f] \in Answered => \A k \in Kinds : <<k, f>> \notin temps

\* WorkerInv survives a step for f, as far as f itself is concerned.
LEMMA OwnWork ==
  ASSUME TypeOk, NEW f \in Files, Work(f), FileStep(f)
  PROVE  Work(f)'
<1>1. ASSUME NEW kinds, Fail(f, kinds)
      PROVE  pc'[f] \in Answered => \A k \in Kinds : <<k, f>> \notin temps'
  BY <1>1 DEF Fail, Goto, CleanUp, Objects, TypeOk, Answered
<1>2. ASSUME NEW step \in Steps \ Answered, Goto(f, step) PROVE pc'[f] \notin Answered
  BY <1>2 DEF Goto, TypeOk
<1>3. CASE ReceiveFile(f)
  BY <1>1, <1>2, <1>3 DEF ReceiveFile, Work, Steps, Answered
<1>4. CASE Decode(f)
  <2>1. CASE Fail(f, <<>>) /\ UNCHANGED worker
    BY <1>1, <1>4, <2>1 DEF Decode, Work
  <2>2. CASE Goto(f, "derive")
    BY <2>2 DEF Goto, TypeOk, Work, Answered
  <2> QED BY <1>4, <2>1, <2>2 DEF Decode
<1>5. ASSUME NEW kind \in Derived, Derive(f, kind) PROVE Work(f)'
  <2>1. pc'[f] = "derive"
    BY <1>5 DEF Derive, Work
  <2> QED BY <2>1 DEF Work, Answered
<1>6. CASE Join(f)
  BY <1>1, <1>2, <1>6 DEF Join, Work, Steps, Kinds, Answered
<1>7. ASSUME NEW kind \in Kinds, PutObject(f, kind) PROVE Work(f)'
  <2>1. Following(kind) \in Steps \ Answered
    BY DEF Following, Kinds, Steps, Answered
  <2>2. pc[f] # "derive" BY <1>7 DEF PutObject, Kinds
  <2> QED BY <1>1, <1>2, <1>7, <2>1, <2>2 DEF PutObject, Work
<1>8. CASE CreatePhoto(f)
  BY <1>1, <1>2, <1>8 DEF CreatePhoto, Work, Steps, Answered
<1>9. CASE Hydrate(f)
  BY <1>9 DEF Hydrate, CleanUp, Objects, Work
<1>10. CASE RemoveObject(f)
  BY <1>1, <1>10 DEF RemoveObject, Work
<1> QED BY <1>3, <1>4, <1>5, <1>6, <1>7, <1>8, <1>9, <1>10 DEF FileStep, ProcessStep

\* WorkerInv is inductive.
LEMMA NextWorker == TypeOk /\ WorkerInv /\ [Next]_vars => WorkerInv'
<1> SUFFICES ASSUME TypeOk, WorkerInv, [Next]_vars PROVE WorkerInv'
  OBVIOUS
<1>1. \A g \in Files : Work(g)
  BY DEF WorkerInv, Work, Objects
<1>2. ASSUME NEW f \in Files, FileStep(f), NEW g \in Files PROVE Work(g)'
  <2>1. CASE g = f BY <1>1, <1>2, <2>1, OwnWork
  <2>2. CASE g # f BY <1>1, <1>2, <2>2, OtherFiles, OtherTemps DEF Work
  <2> QED BY <2>1, <2>2
<1>3. ASSUME BeginUpload \/ EndUpload \/ Disconnect \/ UNCHANGED vars, NEW g \in Files
      PROVE  Work(g)'
  BY <1>1, <1>3 DEF BeginUpload, EndUpload, Disconnect, vars, local, Work
<1>4. \A g \in Files : Work(g)'
  BY <1>2, <1>3 DEF Next, HandlerStep
<1> QED BY <1>4 DEF WorkerInv, Work, Objects

\* No goroutine runs and no temporary file is left.
LEMMA InitWorker == Init => WorkerInv
  BY DEF Init, WorkerInv, Answered

\* When a file is answered its temporary files are gone, and the goroutines that
\* wrote them have ended, whatever fails.
THEOREM TempsAreCleaned == Spec => []TempsCleaned
<1>1. WorkerInv => TempsCleaned
  BY DEF WorkerInv, TempsCleaned, Answered
<1> QED BY <1>1, InitTypeOk, NextTypeOk, InitWorker, NextWorker, PTL DEF Spec

-----------------------------------------------------------------------------
\* The files that are not being handled.
Idle == Answered \cup {"todo"}

\* While one file takes a step the others are not being handled.
LEMMA OneTurn ==
  ASSUME TypeOk, WorkerInv, UndoInv, NEW f \in Files, FileStep(f), NEW g \in Files \ {f}
  PROVE  pc[g] \in Idle
<1>1. CASE ReceiveFile(f)
  BY <1>1 DEF ReceiveFile, Turn, Idle
<1>2. CASE pc[f] \notin Idle
  BY <1>2 DEF UndoInv, Idle
<1>3. ASSUME NEW kind \in Derived, Derive(f, kind) PROVE pc[f] = "derive"
  BY <1>3 DEF Derive, WorkerInv
<1>4. ASSUME NEW kind \in Kinds, PutObject(f, kind) PROVE pc[f] \in Kinds
  BY <1>4 DEF PutObject
<1> QED BY <1>1, <1>2, <1>3, <1>4
     DEF FileStep, ProcessStep, Decode, Join, CreatePhoto, Hydrate, RemoveObject, Idle, Answered, Kinds

\* The kinds that remain of one file: what UndoInv says of it.
Undoubted(f) == \A c \in Calls : <<c, f>> \notin doubtful
Left(f) ==
  f \notin rows /\ Undoubted(f) => \A k \in Kinds : <<k, f>> \in objects => k \in Remaining(f)

\* What is removed when a put fails is what was put before.
LEMMA ListElements ==
  \A kind \in Kinds : PutBy(kind) = {PutBefore(kind)[i] : i \in 1..Len(PutBefore(kind))}
  BY DEF PutBy, PutBefore, Kinds

\* A list is its head and the elements of its tail.
LEMMA HeadAndTail ==
  ASSUME NEW s \in Seq(Kinds), s # <<>>, NEW i \in 1..Len(s), s[i] # Head(s)
  PROVE  \E j \in 1..Len(Tail(s)) : s[i] = Tail(s)[j]
<1>1. i # 1 /\ Len(Tail(s)) = Len(s) - 1 /\ Len(s) \in Nat
  OBVIOUS
<1>2. i - 1 \in 1..Len(Tail(s)) /\ Tail(s)[i - 1] = s[i]
  BY <1>1
<1> QED BY <1>2

\* A failure leaves to be removed what it is given.
LEMMA FailRemaining ==
  ASSUME TypeOk, NEW f \in Files, NEW kinds \in Seq(Kinds), Fail(f, kinds)
  PROVE  \A i \in 1..Len(kinds) : kinds[i] \in Remaining(f)'
<1>1. CASE kinds = <<>> BY <1>1
<1>2. CASE kinds # <<>>
  BY <1>2 DEF Fail, Goto, TypeOk, Remaining
<1> QED BY <1>1, <1>2

\* What remains of f survives a step for f.
LEMMA OwnLeft ==
  ASSUME TypeOk, ProgressInv, WorkerInv, NEW f \in Files, Left(f), FileStep(f)
  PROVE  Left(f)'
<1> SUFFICES ASSUME f \notin rows', Undoubted(f)', NEW k \in Kinds, <<k, f>> \in objects'
             PROVE  k \in Remaining(f)'
  BY DEF Left
<1>0. Undoubted(f)
  <2>1. doubtful \subseteq doubtful' BY Doubts
  <2> QED BY <2>1 DEF Undoubted
<1>1. CASE ProcessStep(f)
  <2>1. ASSUME NEW kind \in Derived, Derive(f, kind) PROVE k \in Remaining(f)'
    <3>1. UNCHANGED <<pc, undo, rows, objects>> BY <2>1 DEF Derive
    <3> QED BY <1>0, <3>1 DEF Left, Remaining
  <2>2. CASE ReceiveFile(f) \/ Decode(f) \/ Join(f)
    <3>1. pc[f] \in {"todo", "decode", "derive"} /\ UNCHANGED <<objects, rows>>
      BY <2>2 DEF ReceiveFile, Decode, Join
    <3>2. Remaining(f) = {}
      BY <3>1 DEF Remaining, PutBy
    <3> QED BY <1>0, <3>1, <3>2 DEF Left
  <2> QED BY <1>1, <2>1, <2>2 DEF ProcessStep
<1>2. ASSUME NEW kind \in Kinds, PutObject(f, kind) PROVE k \in Remaining(f)'
  <2>1. PICK o \in Of("put") :
          /\ objects' = IF Applied(o) THEN objects \cup {<<kind, f>>} ELSE objects
          /\ Note("put", f, o)
          /\ IF Errs(o) THEN Fail(f, PutBefore(kind))
             ELSE Goto(f, Following(kind)) /\ UNCHANGED <<undo, temps>>
    BY <1>2 DEF PutObject
  <2>2. <<k, f>> \in objects => k \in PutBy(kind)
    BY <1>0, <1>2 DEF PutObject, Left, Remaining, Kinds
  <2>3. CASE Errs(o)
    <3>1. ~Applied(o)
      BY <2>1, <2>3 DEF Note, Misleads, Undoubted, Calls
    <3>2. k \in PutBy(kind) BY <2>1, <2>2, <3>1
    <3>3. PICK i \in 1..Len(PutBefore(kind)) : k = PutBefore(kind)[i]
      BY <3>2, ListElements
    <3>4. Fail(f, PutBefore(kind)) /\ PutBefore(kind) \in Seq(Kinds)
      BY <2>1, <2>3, UndoLists
    <3> QED BY <3>3, <3>4, FailRemaining
  <2>4. CASE ~Errs(o)
    <3>1. k \in PutBy(kind) \/ k = kind BY <2>1, <2>2
    <3>2. PutBy(Following(kind)) = PutBy(kind) \cup {kind}
      BY DEF PutBy, Following, Kinds
    <3>3. Remaining(f)' = PutBy(Following(kind))
      BY <2>1, <2>4 DEF Goto, TypeOk, Remaining, Following, Kinds
    <3> QED BY <3>1, <3>2, <3>3
  <2> QED BY <2>3, <2>4
<1>3. CASE CreatePhoto(f)
  <2>1. CASE Fail(f, <<"original", "watermarked", "preview">>)
    <3>1. \A i \in 1..3 : <<"original", "watermarked", "preview">>[i] \in Remaining(f)'
      BY <2>1, UndoLists, FailRemaining
    <3> QED BY <3>1 DEF Kinds
  <2>2. CASE Goto(f, "hydrate")
    BY <2>2 DEF Goto, TypeOk, Remaining, PutBy
  <2> QED BY <1>3, <2>1, <2>2 DEF CreatePhoto
<1>4. CASE Hydrate(f)
  BY <1>4 DEF Hydrate, ProgressInv
<1>5. CASE RemoveObject(f)
  <2>1. PICK o \in Of("remove") :
          /\ objects' = IF Applied(o) THEN objects \ {<<Head(undo), f>>} ELSE objects
          /\ Note("remove", f, o)
    BY <1>5 DEF RemoveObject
  <2>2. Applied(o)
    BY <2>1 DEF Note, Misleads, Undoubted, Calls
  <2>3. k # Head(undo) /\ <<k, f>> \in objects
    BY <2>1, <2>2
  <2>4. k \in Remaining(f)
    BY <1>0, <1>5, <2>3 DEF RemoveObject, Left
  <2>5. PICK i \in 1..Len(undo) : k = undo[i]
    BY <1>5, <2>4 DEF RemoveObject, Remaining
  <2>6. undo \in Seq(Kinds) /\ undo # <<>> /\ Tail(undo) \in Seq(Kinds)
    BY <1>5 DEF RemoveObject, TypeOk
  <2>7. \E j \in 1..Len(Tail(undo)) : k = Tail(undo)[j]
    BY <2>3, <2>5, <2>6, HeadAndTail
  <2> QED BY <1>5, <2>6, <2>7, FailRemaining DEF RemoveObject
<1> QED BY <1>1, <1>2, <1>3, <1>4, <1>5 DEF FileStep

\* UndoInv is inductive.
LEMMA NextUndo ==
  ASSUME TypeOk, ProgressInv, WorkerInv, UndoInv, [Next]_vars
  PROVE  UndoInv'
<1>0. \A g \in Files : Left(g)
  BY DEF UndoInv, Left, Undoubted
<1>1. ASSUME NEW f \in Files, FileStep(f) PROVE UndoInv'
  <2>1. \A g \in Files \ {f} : pc'[g] \in Idle /\ pc[g] \in Idle
    BY <1>1, OneTurn, OtherFiles
  <2>2. ASSUME NEW g \in Files \ {f} PROVE Left(g)'
    <3>1. Undoubted(g)' => Undoubted(g)
      <4>1. doubtful \subseteq doubtful' BY <1>1, Doubts
      <4> QED BY <4>1 DEF Undoubted
    <3>2. Remaining(g)' = Remaining(g)
      BY <1>1, <2>1, OtherFiles DEF Remaining, Idle, Answered
    <3>3. /\ g \in rows' <=> g \in rows
          /\ \A k \in Kinds : <<k, g>> \in objects' <=> <<k, g>> \in objects
      BY <1>1, OtherFiles
    <3> QED BY <1>0, <3>1, <3>2, <3>3 DEF Left
  <2>3. Left(f)' BY <1>0, <1>1, OwnLeft
  <2>4. \A g \in Files : Left(g)' BY <2>2, <2>3
  <2> QED BY <2>1, <2>4 DEF UndoInv, Left, Undoubted, Idle
<1>2. CASE BeginUpload \/ EndUpload \/ Disconnect \/ UNCHANGED vars
  <2>1. UNCHANGED <<pc, undo, objects, rows, doubtful>>
    BY <1>2 DEF BeginUpload, EndUpload, Disconnect, vars
  <2> QED BY <2>1 DEF UndoInv, Remaining
<1> QED BY <1>1, <1>2 DEF Next, HandlerStep

\* A file none of whose calls misled the code leaves a whole photo or no object
\* at all, whatever fails and whenever the client goes away.
THEOREM NothingIsLeftBehind == Spec => []AllOrNothing
<1>1. Init => PhotoInv
  BY DEF Init, PhotoInv
<1>2. TypeOk /\ ProgressInv /\ PhotoInv /\ [Next]_vars => PhotoInv'
  BY NextPhoto
<1>3. Init => UndoInv
  BY DEF Init, UndoInv
<1>4. TypeOk /\ ProgressInv /\ WorkerInv /\ UndoInv /\ [Next]_vars => UndoInv'
  BY NextUndo
<1>5. TypeOk /\ ProgressInv /\ PhotoInv /\ UndoInv => AllOrNothing
  <2> SUFFICES ASSUME TypeOk, ProgressInv, PhotoInv, UndoInv, NEW f \in Files,
                      pc[f] \in Answered, Undoubted(f)
               PROVE  IF f \in rows THEN Objects(f) \subseteq objects
                      ELSE Objects(f) \cap objects = {}
    BY DEF AllOrNothing, Undoubted
  <2>1. CASE f \in rows
    BY <2>1 DEF PhotoInv, Undoubted, Calls
  <2>2. CASE f \notin rows
    <3>1. pc[f] = "failed"
      BY <2>2 DEF ProgressInv, Answered
    <3>2. Remaining(f) = {}
      BY <3>1 DEF Remaining, PutBy
    <3> QED BY <2>2, <3>2 DEF UndoInv, Undoubted, Objects
  <2> QED BY <2>1, <2>2
<1> QED BY <1>1, <1>2, <1>3, <1>4, <1>5, InitTypeOk, NextTypeOk, InitProgress, NextProgress,
     InitWorker, NextWorker, PTL DEF Spec

-----------------------------------------------------------------------------
\* Whatever a file's step does, it brings the file closer to its answer, and leaves
\* something to remove where it says that there is.
LEMMA OwnStepsLeft ==
  ASSUME TypeOk, WorkerInv, UndoShape, NEW f \in Files, FileStep(f)
  PROVE  /\ StepsLeft(f)' < StepsLeft(f)
         /\ pc'[f] = "undo" => Len(undo') \in 1..3
<1>1. ASSUME NEW kinds \in Seq(Kinds), Len(kinds) \in 0..3, Fail(f, kinds)
      PROVE  /\ StepsLeft(f)' = Len(kinds)
             /\ pc'[f] = "undo" => Len(undo') \in 1..3
  <2>1. CASE kinds = <<>>
    BY <1>1, <2>1 DEF Fail, Goto, StepsLeft, TypeOk, Answered
  <2>2. CASE kinds # <<>>
    <3>1. Len(kinds) # 0
      BY <2>2
    <3>2. pc'[f] = "undo" /\ undo' = kinds
      BY <1>1, <2>2 DEF Fail, Goto, TypeOk
    <3> QED
      BY <1>1, <3>1, <3>2 DEF StepsLeft, Answered
  <2> QED
    BY <2>1, <2>2
<1>2. ASSUME NEW step \in Steps, Goto(f, step) PROVE pc'[f] = step
  BY <1>2 DEF Goto, TypeOk
<1>3. Fail(f, <<>>) => StepsLeft(f)' = 0 /\ pc'[f] # "undo"
  <2>1. <<>> \in Seq(Kinds) /\ Len(<<>>) = 0 /\ Len(<<>>) \in 0..3
    OBVIOUS
  <2>2. Fail(f, <<>>) => /\ StepsLeft(f)' = Len(<<>>)
                         /\ pc'[f] = "undo" => Len(undo') \in 1..3
    BY <1>1, <2>1
  <2>3. Fail(f, <<>>) => pc'[f] # "undo"
    BY DEF Fail, Goto, TypeOk
  <2> QED
    BY <2>1, <2>2, <2>3
<1>4. CASE ReceiveFile(f)
  <2>1. CASE Fail(f, <<>>)
    <3>1. StepsLeft(f) = 13
      BY <1>4 DEF ReceiveFile, StepsLeft, Answered
    <3> QED
      BY <1>3, <2>1, <3>1
  <2>2. CASE Goto(f, "decode")
    BY <1>2, <1>4, <2>2 DEF ReceiveFile, StepsLeft, Answered, Steps
  <2> QED
    BY <1>4, <2>1, <2>2 DEF ReceiveFile
<1>5. CASE Decode(f)
  <2>1. CASE Fail(f, <<>>)
    <3>1. StepsLeft(f) = 12
      BY <1>5 DEF Decode, StepsLeft, Answered
    <3> QED
      BY <1>3, <2>1, <3>1
  <2>2. CASE Goto(f, "derive")
    BY <1>2, <1>5, <2>2 DEF Decode, StepsLeft, Busy, Answered, Steps
  <2> QED
    BY <1>5, <2>1, <2>2 DEF Decode
<1>6. ASSUME NEW kind \in Derived, Derive(f, kind)
      PROVE  StepsLeft(f)' < StepsLeft(f) /\ pc'[f] # "undo"
  <2>1. pc[f] = "derive" /\ pc'[f] = "derive" /\ worker[f][kind] = "running"
    BY <1>6 DEF Derive, WorkerInv
  <2>2. \A k \in Derived : worker'[f][k] = "running" => worker[f][k] = "running" /\ k # kind
    BY <1>6 DEF Derive, TypeOk
  <2> QED
    BY <2>1, <2>2 DEF StepsLeft, Busy, Answered, Derived
<1>7. CASE Join(f)
  <2>1. CASE Fail(f, <<>>)
    <3>1. StepsLeft(f) \in 9..11
      BY <1>7 DEF Join, StepsLeft, Busy, Answered
    <3> QED
      BY <1>3, <2>1, <3>1
  <2>2. CASE Goto(f, "original")
    BY <1>2, <1>7, <2>2 DEF Join, StepsLeft, Busy, Answered, Steps, Kinds
  <2> QED
    BY <1>7, <2>1, <2>2 DEF Join
<1>8. ASSUME NEW kind \in Kinds, PutObject(f, kind)
      PROVE  /\ StepsLeft(f)' < StepsLeft(f)
             /\ pc'[f] = "undo" => Len(undo') \in 1..3
  <2>1. PutBefore(kind) \in Seq(Kinds) /\ Len(PutBefore(kind)) \in 0..2
    BY DEF PutBefore, Kinds
  <2>2. CASE Fail(f, PutBefore(kind))
    <3>1. StepsLeft(f) \in 6..8
      BY <1>8 DEF PutObject, StepsLeft, Answered, Kinds
    <3>2. Len(PutBefore(kind)) \in 0..3
      BY <2>1
    <3>3. /\ StepsLeft(f)' = Len(PutBefore(kind))
          /\ pc'[f] = "undo" => Len(undo') \in 1..3
      BY <1>1, <2>1, <2>2, <3>2
    <3> QED
      BY <2>1, <3>1, <3>3
  <2>3. CASE Goto(f, Following(kind))
    <3>1. Following(kind) \in Steps
      BY DEF Following, Kinds, Steps
    <3>2. pc'[f] = Following(kind) /\ pc[f] = kind
      BY <1>2, <1>8, <2>3, <3>1 DEF PutObject
    <3> QED
      BY <3>2 DEF StepsLeft, Answered, Following, Kinds
  <2> QED
    BY <1>8, <2>2, <2>3 DEF PutObject
<1>9. CASE CreatePhoto(f)
  <2>1. CASE Fail(f, <<"original", "watermarked", "preview">>)
    <3>1. /\ <<"original", "watermarked", "preview">> \in Seq(Kinds)
          /\ Len(<<"original", "watermarked", "preview">>) = 3
          /\ Len(<<"original", "watermarked", "preview">>) \in 0..3
      BY UndoLists
    <3>2. StepsLeft(f) = 5
      BY <1>9 DEF CreatePhoto, StepsLeft, Answered
    <3>3. /\ StepsLeft(f)' = Len(<<"original", "watermarked", "preview">>)
          /\ pc'[f] = "undo" => Len(undo') \in 1..3
      BY <1>1, <2>1, <3>1
    <3> QED
      BY <3>1, <3>2, <3>3
  <2>2. CASE Goto(f, "hydrate")
    BY <1>2, <1>9, <2>2 DEF CreatePhoto, StepsLeft, Answered, Steps
  <2> QED
    BY <1>9, <2>1, <2>2 DEF CreatePhoto
<1>10. CASE Hydrate(f)
  <2>1. pc'[f] \in Answered
    BY <1>2, <1>10 DEF Hydrate, Steps, Answered
  <2> QED
    BY <1>10, <2>1 DEF Hydrate, StepsLeft, Answered
<1>11. CASE RemoveObject(f)
  <2>1. /\ pc[f] = "undo" /\ Len(undo) \in 1..3 /\ Fail(f, Tail(undo))
        /\ Tail(undo) \in Seq(Kinds) /\ Len(Tail(undo)) = Len(undo) - 1
    BY <1>11 DEF RemoveObject, UndoShape, TypeOk
  <2>2. StepsLeft(f) = Len(undo)
    BY <2>1 DEF StepsLeft, Answered
  <2>3. PICK rest \in Seq(Kinds) : rest = Tail(undo) /\ Len(rest) \in 0..3 /\ Fail(f, rest)
    <3>1. PICK rest : rest = Tail(undo)
      OBVIOUS
    <3>2. rest \in Seq(Kinds) /\ Len(rest) \in 0..3
      BY <2>1, <3>1
    <3>3. Fail(f, rest)
      BY <2>1, <3>1 DEF Fail
    <3> QED
      BY <3>1, <3>2, <3>3
  <2>4. StepsLeft(f)' = Len(rest) /\ (pc'[f] = "undo" => Len(undo') \in 1..3)
    BY <1>1, <2>3
  <2> QED
    BY <2>1, <2>2, <2>3, <2>4
<1> QED
  BY <1>4, <1>5, <1>6, <1>7, <1>8, <1>9, <1>10, <1>11 DEF FileStep, ProcessStep

\* While some file is left to work on there are between one and thirteen steps to it.
LEMMA StepsInRange ==
  ASSUME TypeOk, UndoShape, NEW f \in Files
  PROVE  StepsLeft(f) \in 0..13
  BY DEF TypeOk, UndoShape, StepsLeft, Busy, Answered, Kinds

\* What does not touch a file leaves it as many steps.
LEMMA OtherStepsLeft ==
  ASSUME TypeOk, WorkerInv, UndoInv, NEW f \in Files, FileStep(f), NEW g \in Files \ {f}
  PROVE  StepsLeft(g)' = StepsLeft(g) /\ pc'[g] # "undo"
<1>1. pc'[g] = pc[g] /\ worker'[g] = worker[g] /\ pc[g] \in Idle
  BY OtherFiles, OtherTemps, OneTurn
<1> QED
  BY <1>1 DEF StepsLeft, Busy, Idle, Answered

\* The lists of removals keep their shape.
LEMMA NextShape ==
  ASSUME TypeOk, WorkerInv, UndoInv, UndoShape, [Next]_vars
  PROVE  UndoShape'
<1>1. ASSUME NEW f \in Files, FileStep(f) PROVE UndoShape'
  <2>1. pc'[f] = "undo" => Len(undo') \in 1..3
    BY <1>1, OwnStepsLeft
  <2>2. \A g \in Files \ {f} : pc'[g] # "undo"
    BY <1>1, OtherStepsLeft
  <2> QED
    BY <2>1, <2>2 DEF UndoShape
<1>2. CASE BeginUpload \/ EndUpload \/ Disconnect \/ UNCHANGED vars
  BY <1>2 DEF BeginUpload, EndUpload, Disconnect, vars, UndoShape
<1> QED
  BY <1>1, <1>2 DEF Next, HandlerStep

\* The steps ahead are finitely many.
LEMMA AheadIsFinite ==
  IsFiniteSet(Ahead) /\ Cardinality(Ahead) \in 0..(13 * Cardinality(Files))
<1>1. Cardinality(Files) \in Nat /\ IsFiniteSet(Files)
  BY RequestAssumption, FS_CardinalityType
<1>2. IsFiniteSet(1..13) /\ Cardinality(1..13) = 13
  <2>1. \A k \in Nat : IsFiniteSet(1..k) /\ Cardinality(1..k) = k
    BY FS_Interval
  <2> QED
    BY <2>1
<1>3. /\ IsFiniteSet(Files \X (1..13))
      /\ Cardinality(Files \X (1..13)) = Cardinality(Files) * Cardinality(1..13)
  <2>1. \A S, T : IsFiniteSet(S) /\ IsFiniteSet(T) =>
          IsFiniteSet(S \X T) /\ Cardinality(S \X T) = Cardinality(S) * Cardinality(T)
    BY FS_Product
  <2> QED
    BY <1>1, <1>2, <2>1
<1>4. Ahead \subseteq Files \X (1..13)
  BY DEF Ahead
<1>5. IsFiniteSet(Ahead) /\ Cardinality(Ahead) <= Cardinality(Files \X (1..13))
  <2> DEFINE P == Files \X (1..13)
  <2> HIDE DEF P
  <2> QED
    BY <1>3, <1>4, FS_Subset DEF P
<1>6. Cardinality(Ahead) \in Nat
  BY <1>5, FS_CardinalityType
<1> QED
  BY <1>1, <1>2, <1>3, <1>5, <1>6

\* A step for a file leaves fewer steps ahead.
LEMMA FileIsAhead ==
  ASSUME TypeOk, WorkerInv, UndoInv, UndoShape, NEW f \in Files, FileStep(f)
  PROVE  Cardinality(Ahead') \in Nat /\ Cardinality(Ahead') < Cardinality(Ahead)
<1>1. TypeOk' /\ UndoShape'
  BY FileTypeOk, NextShape DEF Next, HandlerStep
<1>2. \A g \in Files : StepsLeft(g) \in 0..13 /\ StepsLeft(g)' \in 0..13
  <2>1. \A g \in Files : StepsLeft(g)' \in 0..13
    BY <1>1 DEF TypeOk, UndoShape, StepsLeft, Busy, Answered, Kinds
  <2> QED
    BY <2>1, StepsInRange
<1>3. StepsLeft(f)' < StepsLeft(f)
  BY OwnStepsLeft
<1>4. \A g \in Files : StepsLeft(g)' <= StepsLeft(g)
  BY <1>2, <1>3, OtherStepsLeft
<1>5. PICK n \in 1..13 : n = StepsLeft(f)
  BY <1>2, <1>3
<1>6. Ahead' \subseteq Ahead
  BY <1>2, <1>4 DEF Ahead
<1>7. <<f, n>> \in Ahead /\ <<f, n>> \notin Ahead'
  BY <1>2, <1>3, <1>5 DEF Ahead
<1>8. IsFiniteSet(Ahead) /\ Ahead' # Ahead
  BY <1>7, AheadIsFinite
<1>9. \A A, B : A \subseteq B /\ A # B /\ IsFiniteSet(B) =>
        Cardinality(A) \in Nat /\ Cardinality(A) < Cardinality(B)
  BY FS_Subset, FS_CardinalityType
<1> QED
  BY <1>6, <1>8, <1>9

\* Whatever fails and whenever the client goes away, a request takes no more than
\* thirteen steps for a file, two of its own and the client's going, and until it has
\* answered the guards of one of them hold.
THEOREM UploadIsAnsweredInTime ==
  Spec => /\ []UploadGoesOn
          /\ [](UploadLeft \in 0..(13 * Cardinality(Files) + 3))
          /\ EveryStepIsAhead
<1> DEFINE Inv == TypeOk /\ ProgressInv /\ WorkerInv /\ UndoInv /\ UndoShape
           Refused == rpc = "refused" => ~Admissible
<1>1. Init => ProgressInv /\ WorkerInv /\ UndoInv /\ UndoShape
  BY InitProgress, InitWorker DEF Init, UndoInv, UndoShape
<1>2. Inv /\ [Next]_vars => Inv'
  BY NextTypeOk, NextProgress, NextWorker, NextUndo, NextShape
<1>3. Init => Refused
  BY DEF Init
<1>4. Refused /\ [Next]_vars => Refused'
  <2> SUFFICES ASSUME Refused, [Next]_vars PROVE Refused'
    OBVIOUS
  <2>1. ASSUME NEW f \in Files, FileStep(f) PROVE UNCHANGED rpc
    BY <2>1 DEF FileStep, ProcessStep, ReceiveFile, Decode, Derive, Join, PutObject,
       CreatePhoto, Hydrate, RemoveObject
  <2>2. CASE BeginUpload \/ EndUpload \/ Disconnect \/ UNCHANGED vars
    BY <2>2 DEF BeginUpload, EndUpload, Disconnect, vars, Admissible
  <2> QED
    BY <2>1, <2>2 DEF Next, HandlerStep, Admissible
<1>5. Inv /\ Refused => UploadGoesOn
  <2> SUFFICES ASSUME Inv, rpc = "loop", NEW f \in Files, pc[f] \notin Answered
               PROVE  \E g \in Files : \/ pc[g] = "todo" /\ Turn(g)
                                       \/ pc[g] = "undo" /\ undo # <<>>
                                       \/ pc[g] \notin Answered \cup {"todo", "undo"}
    BY DEF UploadGoesOn
  <2>1. CASE \E g \in Files : pc[g] \notin Idle
    BY <2>1 DEF UndoShape, Idle
  <2>2. CASE \A g \in Files : pc[g] \in Idle
    BY <2>2 DEF Idle, Turn
  <2> QED
    BY <2>1, <2>2
<1>6. UploadLeft \in 0..(13 * Cardinality(Files) + 3)
  <2>1. Cardinality(Files) \in Nat
    BY RequestAssumption, FS_CardinalityType
  <2> QED
    BY <2>1, AheadIsFinite DEF UploadLeft
<1>7. Inv /\ [Next]_vars => [UploadLeft' < UploadLeft]_vars
  <2> SUFFICES ASSUME Inv, [Next]_vars, ~UNCHANGED vars PROVE UploadLeft' < UploadLeft
    OBVIOUS
  <2>1. Cardinality(Ahead) \in Nat
    BY AheadIsFinite, FS_CardinalityType
  <2>2. ASSUME NEW f \in Files, FileStep(f) PROVE UploadLeft' < UploadLeft
    <3>1. UNCHANGED <<rpc, gone>>
      BY <2>2 DEF FileStep, ProcessStep, ReceiveFile, Decode, Derive, Join, PutObject,
         CreatePhoto, Hydrate, RemoveObject
    <3>2. Cardinality(Ahead') \in Nat /\ Cardinality(Ahead') < Cardinality(Ahead)
      BY <2>2, FileIsAhead
    <3> QED
      BY <2>1, <3>1, <3>2 DEF UploadLeft
  <2>3. CASE BeginUpload \/ EndUpload \/ Disconnect
    <3>1. Ahead' = Ahead
      BY <2>3 DEF BeginUpload, EndUpload, Disconnect, local, Ahead, StepsLeft, Busy
    <3> QED
      BY <2>1, <2>3, <3>1 DEF BeginUpload, EndUpload, Disconnect, UploadLeft
  <2> QED
    BY <2>2, <2>3 DEF Next, HandlerStep
<1> QED
  BY <1>1, <1>2, <1>3, <1>4, <1>5, <1>6, <1>7, InitTypeOk, PTL DEF Spec, EveryStepIsAhead
=============================================================================
