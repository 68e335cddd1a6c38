-------------------------- MODULE TiffImage_proofs --------------------------
(***************************************************************************)
(* Proofs about the native memory behind the Java objects, for any number  *)
(* of objects, threads, addresses and decodes, and any allocator.  The     *)
(* invariant follows each pointer: who holds it, and what it points to.    *)
(***************************************************************************)
EXTENDS TiffImage, TLAPS

\* A Java object has one call under way at most: of the thread that made it, or
\* of the finalizer.
Busy(w) == pc[w] # "idle"
Holds(w, o) == \/ java[o] \in {"constructing", "reachable"} /\ user[o] = w
               \/ java[o] = "finalized" /\ w = Finalizer
CallInv ==
  /\ \A w \in Workers : Busy(w) => thiz[w] \in Objects /\ Holds(w, thiz[w])
  /\ \A w \in Workers : At(w, "new") => java[thiz[w]] = "constructing"

\* The field of an object names its native object from one Store to the next, but
\* for the moment in which that has been deleted and the field not yet written.
Live(o) == mNativeContext[o] # NULL /\ ~\E w \in Workers : At(w, "store") /\ thiz[w] = o
Works(w) == pc[w] \in Deleting \cup Decoding

\* The native objects of two Java objects, and those about to be stored, are
\* different blocks.
RootInv ==
  /\ \A o \in Objects : java[o] \in {"unborn", "constructing"} => mNativeContext[o] = NULL
  /\ \A o \in Objects : Live(o) => heap[mNativeContext[o]] = "image"
  /\ \A o, p \in Objects :
       Live(o) /\ Live(p) /\ mNativeContext[o] = mNativeContext[p] => o = p
  /\ \A w \in Workers : Works(w) => image[w] = mNativeContext[thiz[w]]
GivenInv ==
  /\ \A w \in Workers : given[w] # NULL =>
       /\ pc[w] \in {"readOld", "store"}
       /\ heap[given[w]] = "image"
       /\ java[thiz[w]] = "constructing"
  /\ \A w \in Workers, o \in Objects :
       given[w] # NULL /\ Live(o) => given[w] # mNativeContext[o]
  /\ \A v, w \in Workers : given[v] # NULL /\ given[v] = given[w] => v = w

\* What a field of an image names is there, and no other field names it.
Points(field, kind) ==
  /\ \A a \in Addr : field[a] # NULL => heap[a] = "image" /\ heap[field[a]] = kind
  /\ \A a, b \in Addr : field[a] # NULL /\ field[a] = field[b] => a = b
FieldInv == /\ Points(buffer, "pixels")
            /\ Points(javaInputStreamAdaptor, "adaptor")
            /\ Points(tiffInputStream, "stream")

\* A stream and the TIFF opened on it name each other.
StreamInv ==
  /\ \A s \in Addr : m_tif[s] # NULL =>
       heap[s] = "stream" /\ heap[m_tif[s]] = "tiff" /\ clientdata[m_tif[s]] = s
  /\ \A t \in Addr : heap[t] = "tiff" /\ clientdata[t] # NULL =>
       heap[clientdata[t]] = "stream" /\ m_tif[clientdata[t]] = t

\* What a call that deletes an image has left of it.
DeleteInv ==
  \A w \in Workers :
    /\ pc[w] \in Deleting \ {"freeBuffer"} => buffer[image[w]] = NULL
    /\ pc[w] \in {"closeTiff", "freeStream", "deleteImage"} =>
         javaInputStreamAdaptor[image[w]] = NULL
    /\ pc[w] \in {"closeTiff", "freeStream"} => tiffInputStream[image[w]] # NULL
    /\ At(w, "freeStream") => m_tif[tiffInputStream[image[w]]] = NULL
    /\ At(w, "deleteImage") => tiffInputStream[image[w]] = NULL

\* A call has its own TIFF, on a path or on the stream of its own image.
Open(w) == pc[w] \in {"malloc", "readRGBA", "decoded"}
TiffInv ==
  /\ \A w \in Workers : Open(w) =>
       /\ tif[w] # NULL
       /\ heap[tif[w]] = "tiff"
       /\ clientdata[tif[w]] # NULL => clientdata[tif[w]] = tiffInputStream[image[w]]
  /\ \A v, w \in Workers : Open(v) /\ Open(w) /\ tif[v] = tif[w] => v = w
  /\ \A w \in Workers : At(w, "makeFileStream") =>
       tiffInputStream[image[w]] # NULL /\ m_tif[tiffInputStream[image[w]]] = NULL
  /\ \A w \in Workers : At(w, "readRGBA") => buffer[image[w]] # NULL

\* The adaptor of the image is the one this call has lent its environment to.
Lent(w) == /\ javaInputStreamAdaptor[image[w]] # NULL
           /\ fEnv[javaInputStreamAdaptor[image[w]]] = w
AdaptorInv ==
  \A w \in Workers :
    /\ pc[w] \in {"newStream", "makeFileStream"} => Lent(w)
    /\ Open(w) /\ clientdata[tif[w]] # NULL =>
         Lent(w) /\ m_inStream[clientdata[tif[w]]] = javaInputStreamAdaptor[image[w]]

\* The size is the file's from the allocation on, the pixels once they are read.
PictureInv ==
  \A w \in Workers :
    /\ pc[w] \in {"readRGBA", "decoded", "copy"} => dims[image[w]] = file[w]
    /\ pc[w] \in {"decoded", "copy"} /\ buffer[image[w]] # NULL =>
         picture[buffer[image[w]]] = file[w]

\* TypeOK in parts.
JavaOK ==
  /\ java \in [Objects -> {"unborn", "constructing", "reachable", "garbage", "finalized"}]
  /\ user \in [Objects -> Threads \cup {None}]
  /\ mNativeContext \in [Objects -> Pointer]
  /\ decodes \in [Objects -> 0..MaxDecodes]
HeapOK ==
  /\ heap \in [Addr -> {"free", "image", "adaptor", "stream", "tiff", "pixels"}]
  /\ buffer \in [Addr -> Pointer]
  /\ javaInputStreamAdaptor \in [Addr -> Pointer]
  /\ tiffInputStream \in [Addr -> Pointer]
  /\ dims \in [Addr -> Files \cup {None}]
  /\ picture \in [Addr -> Files \cup {None}]
StreamOK ==
  /\ m_tif \in [Addr -> Pointer]
  /\ m_inStream \in [Addr -> Pointer]
  /\ fEnv \in [Addr -> Workers \cup {None}]
  /\ clientdata \in [Addr -> Pointer]
WorkerOK ==
  /\ pc \in [Workers -> Steps]
  /\ thiz \in [Workers -> Objects \cup {None}]
  /\ image \in [Workers -> Pointer]
  /\ given \in [Workers -> Pointer]
  /\ tif \in [Workers -> Pointer]
  /\ file \in [Workers -> Files \cup {None}]
  /\ \A w \in Workers : Works(w) => image[w] # NULL

Types == JavaOK /\ HeapOK /\ StreamOK /\ WorkerOK
IInv == /\ Types /\ CallInv /\ RootInv /\ GivenInv /\ FieldInv /\ StreamInv
        /\ DeleteInv /\ TiffInv /\ AdaptorInv /\ PictureInv

LEMMA InvImplies == IInv => TypeOK
BY DEF IInv, Types, JavaOK, HeapOK, StreamOK, WorkerOK, TypeOK, Works

\* The names of the constants, and NULL among the pointers.
LEMMA Names ==
  /\ Finalizer \in Workers /\ Finalizer \notin Threads /\ None \notin Workers
  /\ Threads \subseteq Workers /\ None \notin Objects
  /\ Addr \subseteq Pointer /\ NULL \in Pointer /\ NULL \notin Addr
  /\ \A p \in Pointer : p # NULL => p \in Addr
BY LifeAssumption DEF LifeAssumption, Workers, Addr, Pointer, NULL

\* Two calls are never of the same object.
LEMMA OneWorker ==
  ASSUME Types, CallInv, NEW v \in Workers, NEW w \in Workers, Busy(v), Busy(w),
         thiz[v] = thiz[w]
  PROVE  v = w
BY DEF CallInv, Holds

\* A call that works on an image has it, and no other call has.
LEMMA OwnImage ==
  ASSUME IInv
  PROVE  /\ \A w \in Workers : Works(w) =>
              /\ image[w] \in Addr /\ heap[image[w]] = "image"
              /\ thiz[w] \in Objects /\ Live(thiz[w])
         /\ \A v, w \in Workers : Works(v) /\ Works(w) /\ image[v] = image[w] => v = w
<1>1. ASSUME NEW w \in Workers, Works(w)
      PROVE  /\ image[w] \in Addr /\ heap[image[w]] = "image"
             /\ thiz[w] \in Objects /\ Live(thiz[w])
  <2>1. Busy(w) /\ ~At(w, "store") /\ thiz[w] \in Objects
    BY <1>1 DEF IInv, CallInv, Works, Deleting, Decoding, Busy, At
  <2>2. image[w] \in Addr /\ image[w] = mNativeContext[thiz[w]]
    BY <1>1, Names DEF IInv, Types, WorkerOK, RootInv
  <2>3. Live(thiz[w])
    BY <2>1, <2>2, OneWorker, Names DEF IInv, Live, Busy, At
  <2> QED
    BY <2>1, <2>2, <2>3 DEF IInv, RootInv
<1>2. ASSUME NEW v \in Workers, NEW w \in Workers, Works(v), Works(w), image[v] = image[w]
      PROVE  v = w
  <2>1. thiz[v] = thiz[w]
    BY <1>1, <1>2 DEF IInv, RootInv
  <2> QED
    BY <1>2, <2>1, OneWorker DEF IInv, Works, Busy, Deleting, Decoding
<1> QED
  BY <1>1, <1>2

\* A step of a call at work that frees no image leaves the native objects alone.
LEMMA QuietRoots ==
  ASSUME IInv, NEW w \in Workers, Works(w), NEW step \in Deleting \cup Decoding,
         pc' = [pc EXCEPT ![w] = step],
         UNCHANGED <<java, mNativeContext, given, thiz, image>>,
         \A a \in Addr : heap[a] = "image" => heap'[a] = "image"
  PROVE  RootInv' /\ GivenInv' /\ \A o \in Objects : Live(o)' = Live(o)
<1>1. pc \in [Workers -> Steps] /\ step # "store" /\ pc[w] # "store" /\ pc[w] # "readOld"
  BY DEF IInv, Types, WorkerOK, Works, Deleting, Decoding
<1>2. \A v \in Workers : /\ At(v, "store") <=> pc'[v] = "store"
                         /\ v # w => pc'[v] = pc[v]
  BY <1>1 DEF At
<1>3. \A o \in Objects : Live(o)' = Live(o)
  BY <1>2 DEF Live, At
<1>4. \A o \in Objects : Live(o) => mNativeContext[o] \in Addr
  BY Names DEF Live, IInv, Types, JavaOK
<1>5. given[w] = NULL
  BY <1>1 DEF IInv, GivenInv
<1>6. RootInv'
  BY <1>2, <1>3, <1>4 DEF IInv, RootInv, Works
<1>7. GivenInv'
  <2>1. \A v \in Workers : given[v] # NULL => given[v] \in Addr /\ v # w
    BY <1>5, Names DEF IInv, Types, WorkerOK
  <2> QED
    BY <1>2, <1>3, <2>1 DEF IInv, GivenInv
<1> QED
  BY <1>3, <1>6, <1>7

\* So does the end of such a call.
LEMMA ReturnRoots ==
  ASSUME IInv, NEW w \in Workers, Works(w), Return(w), UNCHANGED <<javaVars, heap>>
  PROVE  RootInv' /\ GivenInv' /\ \A o \in Objects : Live(o)' = Live(o)
<1>1. pc \in [Workers -> Steps] /\ pc[w] # "store"
  BY DEF IInv, Types, WorkerOK, Works, Deleting, Decoding
<1>2. \A v \in Workers : pc'[v] = IF v = w THEN "idle" ELSE pc[v]
  BY <1>1 DEF Return, Goto
<1>3. \A v \in Workers : v # w => /\ thiz'[v] = thiz[v]
                                 /\ image'[v] = image[v]
                                 /\ given'[v] = given[v]
  BY DEF Return, IInv, Types, WorkerOK
<1>4. given'[w] = NULL
  BY DEF Return, IInv, Types, WorkerOK
<1>5. \A o \in Objects : Live(o)' = Live(o)
  BY <1>1, <1>2, <1>3 DEF Live, At, javaVars
<1>6. RootInv'
  BY <1>2, <1>3, <1>5 DEF IInv, RootInv, javaVars, Works, Deleting, Decoding
<1>7. GivenInv'
  BY <1>2, <1>3, <1>4, <1>5 DEF IInv, GivenInv, javaVars
<1> QED
  BY <1>5, <1>6, <1>7


-----------------------------------------------------------------------------
(***************************************************************************)
(* The invariant holds at the start and is kept, one lemma for each action *)
(* or for each way a handler may go.                                       *)
(***************************************************************************)
LEMMA InitInv == Init => IInv
<1> SUFFICES ASSUME Init PROVE IInv
  OBVIOUS
<1>1. Types
  BY Names, LifeAssumption
     DEF Init, Types, JavaOK, HeapOK, StreamOK, WorkerOK, Works, Deleting, Decoding,
         Steps, LifeAssumption
<1>2. CallInv /\ RootInv /\ GivenInv
  BY DEF Init, CallInv, RootInv, GivenInv, Busy, At, Works, Live, Deleting, Decoding
<1>3. FieldInv /\ StreamInv
  BY DEF Init, FieldInv, Points, StreamInv
<1>4. DeleteInv /\ TiffInv /\ AdaptorInv /\ PictureInv
  BY DEF Init, DeleteInv, TiffInv, AdaptorInv, PictureInv, Deleting, Open, At
<1> QED
  BY <1>1, <1>2, <1>3, <1>4 DEF IInv

LEMMA ConstructKeeps ==
  ASSUME IInv, NEW w \in Workers, NEW o \in Objects, Construct(w, o)
  PROVE  IInv'
<1> USE DEF IInv, Construct, At, Goto, javaVars, imageVars, streamVars, localVars
<1>1. JavaOK'
  BY DEF Types, JavaOK
<1>2. HeapOK'
  BY DEF Types, HeapOK
<1>3. StreamOK'
  BY DEF Types, StreamOK
<1>4. WorkerOK'
  BY DEF Types, WorkerOK, Steps, Works, Deleting, Decoding
<1>5. CallInv'
  BY DEF Types, JavaOK, WorkerOK, CallInv, Busy, Holds
<1>6. RootInv'
  BY DEF CallInv, RootInv, Live, Works, Deleting, Decoding
<1>7. GivenInv'
  BY DEF GivenInv, Live
<1>8. FieldInv'
  BY DEF FieldInv, Points
<1>9. StreamInv'
  BY DEF StreamInv
<1>10. DeleteInv'
  BY DEF DeleteInv, Deleting
<1>11. TiffInv'
  BY DEF TiffInv, Open
<1>12. AdaptorInv'
  BY DEF AdaptorInv, Lent, Open
<1>13. PictureInv'
  BY DEF PictureInv
<1> QED
  BY <1>1, <1>2, <1>3, <1>4, <1>5, <1>6, <1>7, <1>8, <1>9, <1>10, <1>11, <1>12, <1>13
     DEF Types

LEMMA NewTiffImageKeeps ==
  ASSUME IInv, NEW w \in Workers, NewTiffImage(w)
  PROVE  IInv'
<1> USE DEF IInv, NewTiffImage, At, Goto, Unused, Holding, javaVars, imageVars,
            streamVars, localVars
<1>1. JavaOK'
  BY DEF Types, JavaOK
<1>2. HeapOK'
  BY Names DEF Types, HeapOK
<1>3. StreamOK'
  BY DEF Types, StreamOK
<1>4. WorkerOK'
  BY Names DEF Types, WorkerOK, Steps, Works, Deleting, Decoding
<1>5. CallInv'
  BY DEF CallInv, Busy, Holds
<1>6. RootInv'
  BY DEF RootInv, FieldInv, Live, Works, Deleting, Decoding
<1>7. GivenInv'
  BY DEF Types, HeapOK, WorkerOK, CallInv, RootInv, GivenInv, Live
<1>8. FieldInv'
  BY DEF FieldInv, Points
<1>9. StreamInv'
  BY DEF StreamInv
<1>10. DeleteInv'
  BY DEF DeleteInv, FieldInv, Points, Deleting
<1>11. TiffInv'
  BY DEF TiffInv, FieldInv, Points, Open
<1>12. AdaptorInv'
  BY DEF AdaptorInv, Lent, FieldInv, Points, Open
<1>13. PictureInv'
  BY OwnImage DEF PictureInv, Works, Decoding
<1> QED
  BY <1>1, <1>2, <1>3, <1>4, <1>5, <1>6, <1>7, <1>8, <1>9, <1>10, <1>11, <1>12, <1>13
     DEF Types

LEMMA NewFailsKeeps ==
  ASSUME IInv, NEW w \in Workers, NewFails(w)
  PROVE  IInv'
<1> USE DEF IInv, NewFails, At, Goto, Return, javaVars, imageVars, streamVars, localVars
<1>1. JavaOK'
  BY DEF Types, JavaOK, CallInv, Busy, LifeAssumption
<1>2. HeapOK'
  BY DEF Types, HeapOK
<1>3. StreamOK'
  BY DEF Types, StreamOK
<1>4. WorkerOK'
  BY Names DEF Types, WorkerOK, Steps, Works, Deleting, Decoding
<1>5. CallInv'
  BY DEF Types, WorkerOK, CallInv, Busy, Holds
<1>6. RootInv'
  <2>1. \A v \in Workers : pc'[v] = IF v = w THEN "idle" ELSE pc[v]
    BY DEF Types, WorkerOK
  <2>2. \A v \in Workers : v # w => thiz'[v] = thiz[v] /\ image'[v] = image[v]
    OBVIOUS
  <2>3. \A p \in Objects : Live(p)' = Live(p)
    BY <2>1, <2>2 DEF Live
  <2>4. \A p \in Objects : java'[p] \in {"unborn", "constructing"} => java[p] = java'[p]
    OBVIOUS
  <2> QED
    BY <2>1, <2>2, <2>3, <2>4 DEF RootInv, Works, Deleting, Decoding
<1>7. GivenInv'
  BY OneWorker DEF RootInv, GivenInv, Live, Busy
<1>8. FieldInv'
  BY DEF FieldInv, Points
<1>9. StreamInv'
  BY DEF StreamInv
<1>10. DeleteInv'
  BY DEF DeleteInv, Deleting
<1>11. TiffInv'
  BY DEF TiffInv, Open
<1>12. AdaptorInv'
  BY Names, OwnImage DEF Types, HeapOK, AdaptorInv, Lent, Open, Works, Decoding
<1>13. PictureInv'
  BY DEF PictureInv
<1> QED
  BY <1>1, <1>2, <1>3, <1>4, <1>5, <1>6, <1>7, <1>8, <1>9, <1>10, <1>11, <1>12, <1>13
     DEF Types

LEMMA ReadOldKeeps ==
  ASSUME IInv, NEW w \in Workers, ReadOld(w)
  PROVE  IInv'
<1> USE DEF IInv, ReadOld, At, Goto, MustDelete, javaVars, imageVars, streamVars,
            localVars
<1>1. JavaOK'
  BY DEF Types, JavaOK
<1>2. HeapOK'
  BY DEF Types, HeapOK
<1>3. StreamOK'
  BY DEF Types, StreamOK
<1>4. WorkerOK'
  <2>1. mNativeContext[thiz[w]] \in Pointer
    BY DEF Types, JavaOK, CallInv, Busy
  <2> QED
    BY <2>1 DEF Types, WorkerOK, Works, Deleting, Decoding, Steps
<1>5. CallInv'
  BY DEF CallInv, Busy, Holds
<1>6. RootInv'
  BY DEF Types, WorkerOK, RootInv, Live, Works
<1>7. GivenInv'
  BY DEF CallInv, RootInv, GivenInv, Live, Busy
<1>8. FieldInv'
  BY DEF FieldInv, Points
<1>9. StreamInv'
  BY DEF StreamInv
<1>10. DeleteInv'
  BY DEF DeleteInv, Deleting
<1>11. TiffInv'
  BY DEF TiffInv, Open
<1>12. AdaptorInv'
  BY DEF AdaptorInv, Lent, Open
<1>13. PictureInv'
  BY DEF PictureInv
<1> QED
  BY <1>1, <1>2, <1>3, <1>4, <1>5, <1>6, <1>7, <1>8, <1>9, <1>10, <1>11, <1>12, <1>13
     DEF Types

LEMMA FreeBufferKeeps ==
  ASSUME IInv, NEW w \in Workers, FreeBuffer(w)
  PROVE  IInv'
<1> USE DEF IInv, FreeBuffer, At, Goto, Freed, javaVars, imageVars, streamVars, localVars
<1>1. JavaOK'
  BY DEF Types, JavaOK
<1>2. HeapOK'
  BY Names, OwnImage DEF Types, HeapOK, Works, Deleting
<1>3. StreamOK'
  BY DEF Types, StreamOK
<1>4. WorkerOK'
  BY DEF Types, WorkerOK, Steps, Works, Deleting
<1>5. CallInv'
  BY DEF CallInv, Busy, Holds
<1>6. RootInv' /\ GivenInv'
  <2>1. Works(w)
    BY DEF Works, Deleting
  <2>2. \A b \in Addr : heap[b] = "image" => heap'[b] = "image"
    BY <2>1, Names, OwnImage DEF FieldInv, Points
  <2>3. PICK step \in Deleting \cup Decoding : pc' = [pc EXCEPT ![w] = step]
    BY DEF Deleting, Decoding
  <2> QED
    BY <2>1, <2>2, <2>3, QuietRoots
<1>7. FieldInv'
  BY Names, OwnImage DEF Types, HeapOK, FieldInv, Points, Works, Deleting
<1>8. StreamInv'
  BY Names, OwnImage DEF Types, StreamOK, StreamInv, FieldInv, Points, Works, Deleting
<1>9. DeleteInv'
  BY OwnImage DEF Types, HeapOK, DeleteInv, Works, Deleting
<1>10. TiffInv'
  BY Names, OwnImage
     DEF Types, WorkerOK, TiffInv, FieldInv, Points, Open, Works, Deleting, Decoding
<1>11. AdaptorInv'
  BY DEF AdaptorInv, Lent, Open
<1>12. PictureInv'
  BY DEF PictureInv
<1> QED
  BY <1>1, <1>2, <1>3, <1>4, <1>5, <1>6, <1>7, <1>8, <1>9, <1>10, <1>11, <1>12 DEF Types

LEMMA DeleteAdaptorKeeps ==
  ASSUME IInv, NEW w \in Workers, DeleteAdaptor(w)
  PROVE  IInv'
<1> USE DEF IInv, DeleteAdaptor, At, Goto, Freed, javaVars, imageVars, streamVars,
            localVars
<1>1. JavaOK'
  BY DEF Types, JavaOK
<1>2. HeapOK'
  BY Names, OwnImage DEF Types, HeapOK, Works, Deleting
<1>3. StreamOK'
  BY DEF Types, StreamOK
<1>4. WorkerOK'
  BY DEF Types, WorkerOK, Steps, Works, Deleting
<1>5. CallInv'
  BY DEF CallInv, Busy, Holds
<1>6. RootInv' /\ GivenInv'
  <2>1. Works(w)
    BY DEF Works, Deleting
  <2>2. \A b \in Addr : heap[b] = "image" => heap'[b] = "image"
    BY <2>1, Names, OwnImage DEF FieldInv, Points
  <2>3. PICK step \in Deleting \cup Decoding : pc' = [pc EXCEPT ![w] = step]
    BY DEF Deleting, Decoding
  <2> QED
    BY <2>1, <2>2, <2>3, QuietRoots
<1>7. FieldInv'
  BY Names, OwnImage DEF Types, HeapOK, FieldInv, Points, Works, Deleting
<1>8. StreamInv'
  BY Names, OwnImage DEF Types, StreamOK, StreamInv, FieldInv, Points, Works, Deleting
<1>9. DeleteInv'
  BY OwnImage DEF Types, HeapOK, DeleteInv, Works, Deleting
<1>10. TiffInv'
  BY Names DEF Types, WorkerOK, TiffInv, FieldInv, Points, Open, Works, Deleting
<1>11. AdaptorInv'
  BY OwnImage DEF AdaptorInv, Lent, Open, Works, Deleting, Decoding
<1>12. PictureInv'
  BY DEF PictureInv
<1> QED
  BY <1>1, <1>2, <1>3, <1>4, <1>5, <1>6, <1>7, <1>8, <1>9, <1>10, <1>11, <1>12 DEF Types

LEMMA CloseTiffKeeps ==
  ASSUME IInv, NEW w \in Workers, CloseTiff(w)
  PROVE  IInv'
<1> USE DEF IInv, CloseTiff, At, Goto, Freed, javaVars, imageVars, streamVars, localVars
<1>1. JavaOK'
  BY DEF Types, JavaOK
<1>2. HeapOK'
  BY DEF Types, HeapOK
<1>3. StreamOK'
  BY Names, OwnImage DEF Types, StreamOK, HeapOK, WorkerOK, Works, Deleting, Decoding
<1>4. WorkerOK'
  BY DEF Types, WorkerOK, Steps, Works, Deleting
<1>5. CallInv'
  BY DEF CallInv, Busy, Holds
<1>6. RootInv' /\ GivenInv'
  <2>1. Works(w)
    BY DEF Works, Deleting
  <2>2. \A b \in Addr : heap[b] = "image" => heap'[b] = "image"
    BY <2>1, Names, OwnImage DEF Types, HeapOK, DeleteInv, StreamInv
  <2>3. PICK step \in Deleting \cup Decoding : pc' = [pc EXCEPT ![w] = step]
    BY DEF Deleting, Decoding
  <2> QED
    BY <2>1, <2>2, <2>3, QuietRoots
<1>7. FieldInv'
  BY Names, OwnImage
     DEF Types, HeapOK, FieldInv, Points, StreamInv, DeleteInv, Works, Deleting
<1>8. StreamInv'
  BY Names, OwnImage DEF Types, HeapOK, StreamOK, StreamInv, DeleteInv, Works, Deleting
<1>9. DeleteInv'
  BY Names, OwnImage DEF Types, HeapOK, StreamOK, DeleteInv, Works, Deleting
<1>10. TiffInv'
  BY Names, OwnImage
     DEF Types, HeapOK, WorkerOK, TiffInv, FieldInv, Points, StreamInv, DeleteInv, Open,
         Works, Deleting, Decoding
<1>11. AdaptorInv'
  BY Names, OwnImage
     DEF Types, HeapOK, AdaptorInv, Lent, TiffInv, FieldInv, Points, StreamInv, DeleteInv,
         Open, Works, Deleting, Decoding
<1>12. PictureInv'
  BY DEF PictureInv
<1> QED
  BY <1>1, <1>2, <1>3, <1>4, <1>5, <1>6, <1>7, <1>8, <1>9, <1>10, <1>11, <1>12 DEF Types

LEMMA FreeStreamKeeps ==
  ASSUME IInv, NEW w \in Workers, FreeStream(w)
  PROVE  IInv'
<1> USE DEF IInv, FreeStream, At, Goto, Freed, javaVars, imageVars, streamVars, localVars
<1>1. JavaOK'
  BY DEF Types, JavaOK
<1>2. HeapOK'
  BY Names, OwnImage DEF Types, HeapOK, Works, Deleting
<1>3. StreamOK'
  BY DEF Types, StreamOK
<1>4. WorkerOK'
  BY DEF Types, WorkerOK, Steps, Works, Deleting
<1>5. CallInv'
  BY DEF CallInv, Busy, Holds
<1>6. RootInv' /\ GivenInv'
  <2>1. Works(w)
    BY DEF Works, Deleting
  <2>2. \A b \in Addr : heap[b] = "image" => heap'[b] = "image"
    BY <2>1, Names, OwnImage DEF FieldInv, Points
  <2>3. PICK step \in Deleting \cup Decoding : pc' = [pc EXCEPT ![w] = step]
    BY DEF Deleting, Decoding
  <2> QED
    BY <2>1, <2>2, <2>3, QuietRoots
<1>7. FieldInv'
  BY Names, OwnImage DEF Types, HeapOK, FieldInv, Points, Works, Deleting
<1>8. StreamInv'
  BY Names, OwnImage
     DEF Types, StreamOK, StreamInv, FieldInv, Points, DeleteInv, Works, Deleting
<1>9. DeleteInv'
  BY OwnImage DEF Types, HeapOK, WorkerOK, DeleteInv, Works, Deleting
<1>10. TiffInv'
  BY Names, OwnImage
     DEF Types, WorkerOK, TiffInv, FieldInv, Points, Open, Works, Deleting, Decoding
<1>11. AdaptorInv'
  BY DEF AdaptorInv, Lent, Open
<1>12. PictureInv'
  BY DEF PictureInv
<1> QED
  BY <1>1, <1>2, <1>3, <1>4, <1>5, <1>6, <1>7, <1>8, <1>9, <1>10, <1>11, <1>12 DEF Types

LEMMA DeleteImageKeeps ==
  ASSUME IInv, NEW w \in Workers, DeleteImage(w)
  PROVE  IInv'
<1> USE DEF IInv, DeleteImage, At, Goto, Freed, javaVars, imageVars, streamVars, localVars
<1>1. JavaOK'
  BY DEF Types, JavaOK
<1>2. HeapOK'
  BY DEF Types, HeapOK
<1>3. StreamOK'
  BY DEF Types, StreamOK
<1>4. WorkerOK'
  BY DEF Types, WorkerOK, Steps, Works, Deleting
<1>5. CallInv'
  BY DEF CallInv, Busy, Holds
<1>6. RootInv'
  <2>1. Works(w) /\ image[w] = mNativeContext[thiz[w]]
    BY DEF RootInv, Works, Deleting
  <2>2. \A v \in Workers : pc'[v] = IF v = w THEN "store" ELSE pc[v]
    BY DEF Types, WorkerOK
  <2>3. \A p \in Objects : Live(p)' => Live(p) /\ p # thiz[w]
    BY <2>2 DEF Live
  <2>4. \A p \in Objects : Live(p)' => /\ mNativeContext[p] # image[w]
                                      /\ mNativeContext[p] \in Addr
    BY <2>1, <2>3, OwnImage, Names DEF RootInv, Live, Types, JavaOK
  <2>5. \A b \in Addr : b # image[w] => heap'[b] = heap[b]
    OBVIOUS
  <2>6. \A v \in Workers : Works(v)' => Works(v)
    BY <2>2 DEF Works, Deleting
  <2> QED
    BY <2>3, <2>4, <2>5, <2>6 DEF RootInv
<1>7. GivenInv'
  <2>1. Works(w) /\ image[w] = mNativeContext[thiz[w]]
    BY DEF RootInv, Works, Deleting
  <2>2. \A v \in Workers : pc'[v] = IF v = w THEN "store" ELSE pc[v]
    BY DEF Types, WorkerOK
  <2>3. \A p \in Objects : Live(p)' => Live(p)
    BY <2>2 DEF Live
  <2>4. \A v \in Workers :
          given[v] # NULL => given[v] # image[w] /\ given[v] \in Addr /\ v # w
    BY <2>1, OwnImage, Names DEF GivenInv, Types, WorkerOK
  <2>5. \A b \in Addr : b # image[w] => heap'[b] = heap[b]
    OBVIOUS
  <2> QED
    BY <2>2, <2>3, <2>4, <2>5 DEF GivenInv
<1>8. FieldInv'
  BY Names, OwnImage DEF Types, HeapOK, FieldInv, Points, DeleteInv, Works, Deleting
<1>9. StreamInv'
  BY Names, OwnImage DEF Types, StreamOK, StreamInv, Works, Deleting
<1>10. DeleteInv'
  BY DEF DeleteInv, Deleting
<1>11. TiffInv'
  BY Names, OwnImage DEF Types, WorkerOK, TiffInv, Open, Works, Deleting
<1>12. AdaptorInv'
  BY DEF AdaptorInv, Lent, Open
<1>13. PictureInv'
  BY DEF PictureInv
<1> QED
  BY <1>1, <1>2, <1>3, <1>4, <1>5, <1>6, <1>7, <1>8, <1>9, <1>10, <1>11, <1>12, <1>13
     DEF Types

LEMMA StoreKeeps ==
  ASSUME IInv, NEW w \in Workers, Store(w)
  PROVE  IInv'
<1> USE DEF IInv, Store, At, Goto, Stored, Return, javaVars, imageVars, streamVars,
            localVars
<1>1. JavaOK'
  BY DEF Types, JavaOK, WorkerOK, CallInv, Busy, LifeAssumption
<1>2. HeapOK'
  BY DEF Types, HeapOK
<1>3. StreamOK'
  BY DEF Types, StreamOK
<1>4. WorkerOK'
  BY Names DEF Types, WorkerOK, Steps, Works, Deleting, Decoding
<1>5. CallInv'
  BY DEF Types, WorkerOK, CallInv, Busy, Holds
<1>6. RootInv'
  BY OneWorker
     DEF Types, JavaOK, HeapOK, WorkerOK, CallInv, RootInv, GivenInv, FieldInv, Points,
         Live, Busy, Works, Deleting, Decoding
<1>7. GivenInv'
  BY OneWorker DEF Types, JavaOK, WorkerOK, CallInv, GivenInv, Live, Busy
<1>8. FieldInv'
  BY DEF FieldInv, Points
<1>9. StreamInv'
  BY DEF StreamInv
<1>10. DeleteInv'
  BY DEF DeleteInv, Deleting
<1>11. TiffInv'
  BY DEF TiffInv, Open
<1>12. AdaptorInv'
  BY Names, OwnImage DEF Types, HeapOK, AdaptorInv, Lent, Open, Works, Decoding
<1>13. PictureInv'
  BY DEF PictureInv
<1> QED
  BY <1>1, <1>2, <1>3, <1>4, <1>5, <1>6, <1>7, <1>8, <1>9, <1>10, <1>11, <1>12, <1>13
     DEF Types

LEMMA ReleaseKeeps ==
  ASSUME IInv, NEW w \in Workers, NEW o \in Objects, Release(w, o)
  PROVE  IInv'
<1> USE DEF IInv, Release, Ready, At, Goto, javaVars, imageVars, streamVars, localVars
<1>1. JavaOK'
  BY DEF Types, JavaOK
<1>2. HeapOK'
  BY DEF Types, HeapOK
<1>3. StreamOK'
  BY DEF Types, StreamOK
<1>4. WorkerOK'
  BY DEF Types, WorkerOK, Steps, Works, Deleting, Decoding
<1>5. CallInv'
  BY DEF Types, WorkerOK, CallInv, Busy, Holds
<1>6. RootInv'
  BY DEF RootInv, Live, Busy, Works, Deleting, Decoding
<1>7. GivenInv'
  BY DEF GivenInv, Live
<1>8. FieldInv'
  BY DEF FieldInv, Points
<1>9. StreamInv'
  BY DEF StreamInv
<1>10. DeleteInv'
  BY DEF DeleteInv, Deleting
<1>11. TiffInv'
  BY DEF TiffInv, Open
<1>12. AdaptorInv'
  BY DEF AdaptorInv, Lent, Open
<1>13. PictureInv'
  BY DEF PictureInv
<1> QED
  BY <1>1, <1>2, <1>3, <1>4, <1>5, <1>6, <1>7, <1>8, <1>9, <1>10, <1>11, <1>12, <1>13
     DEF Types

LEMMA ForgetKeeps ==
  ASSUME IInv, NEW w \in Workers, NEW o \in Objects, Forget(w, o)
  PROVE  IInv'
<1> USE DEF IInv, Forget, Ready, At, javaVars, imageVars, streamVars, localVars
<1>1. JavaOK'
  BY DEF Types, JavaOK
<1>2. HeapOK'
  BY DEF Types, HeapOK
<1>3. StreamOK'
  BY DEF Types, StreamOK
<1>4. WorkerOK'
  BY DEF Types, WorkerOK, Works
<1>5. CallInv'
  BY DEF CallInv, Busy, Holds
<1>6. RootInv'
  BY DEF RootInv, Live, Works
<1>7. GivenInv'
  BY DEF GivenInv, Live
<1>8. FieldInv'
  BY DEF FieldInv, Points
<1>9. StreamInv'
  BY DEF StreamInv
<1>10. DeleteInv'
  BY DEF DeleteInv
<1>11. TiffInv'
  BY DEF TiffInv, Open
<1>12. AdaptorInv'
  BY DEF AdaptorInv, Lent, Open
<1>13. PictureInv'
  BY DEF PictureInv
<1> QED
  BY <1>1, <1>2, <1>3, <1>4, <1>5, <1>6, <1>7, <1>8, <1>9, <1>10, <1>11, <1>12, <1>13
     DEF Types

LEMMA FinalizeKeeps ==
  ASSUME IInv, NEW o \in Objects, Finalize(o)
  PROVE  IInv'
<1> USE DEF IInv, Finalize, At, Goto, javaVars, imageVars, streamVars, localVars
<1>1. JavaOK'
  BY DEF Types, JavaOK
<1>2. HeapOK'
  BY DEF Types, HeapOK
<1>3. StreamOK'
  BY DEF Types, StreamOK
<1>4. WorkerOK'
  BY Names DEF Types, WorkerOK, Steps, Works, Deleting, Decoding
<1>5. CallInv'
  BY DEF Types, JavaOK, WorkerOK, CallInv, Busy, Holds
<1>6. RootInv'
  BY DEF WorkerOK, RootInv, Live, Works, Deleting, Decoding
<1>7. GivenInv'
  BY DEF GivenInv, Live
<1>8. FieldInv'
  BY DEF FieldInv, Points
<1>9. StreamInv'
  BY DEF StreamInv
<1>10. DeleteInv'
  BY DEF DeleteInv, Deleting
<1>11. TiffInv'
  BY DEF TiffInv, Open
<1>12. AdaptorInv'
  BY DEF AdaptorInv, Lent, Open
<1>13. PictureInv'
  BY DEF PictureInv
<1> QED
  BY <1>1, <1>2, <1>3, <1>4, <1>5, <1>6, <1>7, <1>8, <1>9, <1>10, <1>11, <1>12, <1>13
     DEF Types

LEMMA DecodeKeeps ==
  ASSUME IInv, NEW w \in Workers, NEW o \in Objects,
         NEW first \in {"TIFFOpen", "newAdaptor"},
         Decode(w, o, first)
  PROVE  IInv'
<1> USE DEF IInv, Decode, Ready, At, Goto, javaVars, imageVars, streamVars, localVars
<1>1. JavaOK'
  BY LifeAssumption DEF Types, JavaOK
<1>2. HeapOK'
  BY DEF Types, HeapOK
<1>3. StreamOK'
  BY DEF Types, StreamOK
<1>4. WorkerOK'
  BY DEF Types, WorkerOK, JavaOK, Steps, Works
<1>5. CallInv'
  BY DEF Types, WorkerOK, CallInv, Busy, Holds
<1>6. RootInv'
  <2>1. \A v \in Workers : pc'[v] = IF v = w THEN first ELSE pc[v]
    BY DEF Types, WorkerOK
  <2>2. \A v \in Workers : /\ thiz'[v] = IF v = w THEN o ELSE thiz[v]
                           /\ image'[v] = IF v = w THEN mNativeContext[o] ELSE image[v]
    BY DEF Types, WorkerOK
  <2>3. \A p \in Objects : Live(p)' = Live(p)
    BY <2>1, <2>2 DEF Live
  <2>4. \A v \in Workers : v # w => Works(v)' = Works(v)
    BY <2>1 DEF Works
  <2> QED
    BY <2>2, <2>3, <2>4 DEF RootInv
<1>7. GivenInv'
  BY DEF GivenInv, Live
<1>8. FieldInv'
  BY DEF FieldInv, Points
<1>9. StreamInv'
  BY DEF StreamInv
<1>10. DeleteInv'
  BY DEF DeleteInv, Deleting
<1>11. TiffInv'
  BY DEF TiffInv, Open
<1>12. AdaptorInv'
  BY DEF AdaptorInv, Lent, Open
<1>13. PictureInv'
  BY DEF PictureInv
<1> QED
  BY <1>1, <1>2, <1>3, <1>4, <1>5, <1>6, <1>7, <1>8, <1>9, <1>10, <1>11, <1>12, <1>13
     DEF Types

LEMMA TIFFOpenKeeps ==
  ASSUME IInv, NEW w \in Workers, TIFFOpen(w)
  PROVE  IInv'
<1> USE DEF IInv, TIFFOpen, At, Goto, Unused, Holding, javaVars, imageVars, streamVars,
            localVars
<1>1. JavaOK'
  BY DEF Types, JavaOK
<1>2. HeapOK'
  BY DEF Types, HeapOK
<1>3. StreamOK'
  BY Names DEF Types, StreamOK
<1>4. WorkerOK'
  BY Names DEF Types, WorkerOK, Steps, Works, Decoding
<1>5. CallInv'
  BY DEF CallInv, Busy, Holds
<1>6. RootInv' /\ GivenInv'
  <2>1. Works(w)
    BY DEF Works, Decoding
  <2>2. \A b \in Addr : heap[b] = "image" => heap'[b] = "image"
    BY <2>1
  <2>3. PICK step \in Deleting \cup Decoding : pc' = [pc EXCEPT ![w] = step]
    BY DEF Deleting, Decoding
  <2> QED
    BY <2>1, <2>2, <2>3, QuietRoots
<1>7. FieldInv'
  BY DEF FieldInv, Points
<1>8. StreamInv'
  BY DEF Types, StreamOK, StreamInv
<1>9. DeleteInv'
  BY DEF DeleteInv, Deleting
<1>10. TiffInv'
  BY Names DEF Types, HeapOK, StreamOK, WorkerOK, TiffInv, Open
<1>11. AdaptorInv'
  BY DEF Types, StreamOK, WorkerOK, AdaptorInv, Lent, Open
<1>12. PictureInv'
  BY DEF PictureInv
<1> QED
  BY <1>1, <1>2, <1>3, <1>4, <1>5, <1>6, <1>7, <1>8, <1>9, <1>10, <1>11, <1>12 DEF Types

LEMMA OpenFailsKeeps ==
  ASSUME IInv, NEW w \in Workers, OpenFails(w)
  PROVE  IInv'
<1> USE DEF IInv, OpenFails, At, Goto, Return, javaVars, imageVars, streamVars, localVars
<1>1. JavaOK'
  BY DEF Types, JavaOK
<1>2. HeapOK'
  BY DEF Types, HeapOK
<1>3. StreamOK'
  BY DEF Types, StreamOK
<1>4. WorkerOK'
  BY Names DEF Types, WorkerOK, Steps, Works, Deleting, Decoding
<1>5. CallInv'
  BY DEF Types, WorkerOK, CallInv, Busy, Holds
<1>6. RootInv' /\ GivenInv'
  BY ReturnRoots DEF Works, Deleting, Decoding
<1>7. FieldInv'
  BY DEF FieldInv, Points
<1>8. StreamInv'
  BY DEF StreamInv
<1>9. DeleteInv'
  BY DEF DeleteInv, Deleting
<1>10. TiffInv'
  BY DEF TiffInv, Open
<1>11. AdaptorInv'
  BY Names, OwnImage DEF Types, HeapOK, AdaptorInv, Lent, Open, Works, Decoding
<1>12. PictureInv'
  BY DEF PictureInv
<1> QED
  BY <1>1, <1>2, <1>3, <1>4, <1>5, <1>6, <1>7, <1>8, <1>9, <1>10, <1>11, <1>12 DEF Types

LEMMA NewAdaptorKeeps ==
  ASSUME IInv, NEW w \in Workers, NewAdaptor(w)
  PROVE  IInv'
<1> USE DEF IInv, NewAdaptor, At, Goto, Unused, Holding, LendTo, javaVars, imageVars,
            streamVars, localVars
<1>1. JavaOK'
  BY DEF Types, JavaOK
<1>2. HeapOK'
  BY Names, OwnImage DEF Types, HeapOK, Works, Decoding
<1>3. StreamOK'
  BY DEF Types, StreamOK
<1>4. WorkerOK'
  BY DEF Types, WorkerOK, Steps, Works, Decoding
<1>5. CallInv'
  BY DEF CallInv, Busy, Holds
<1>6. RootInv' /\ GivenInv'
  <2>1. Works(w)
    BY DEF Works, Decoding
  <2>2. \A b \in Addr : heap[b] = "image" => heap'[b] = "image"
    BY <2>1
  <2>3. PICK step \in Deleting \cup Decoding : pc' = [pc EXCEPT ![w] = step]
    BY DEF Deleting, Decoding
  <2> QED
    BY <2>1, <2>2, <2>3, QuietRoots
<1>7. FieldInv'
  BY OwnImage DEF Types, HeapOK, FieldInv, Points, Works, Decoding
<1>8. StreamInv'
  BY DEF StreamInv
<1>9. DeleteInv'
  BY OwnImage DEF DeleteInv, Works, Deleting, Decoding
<1>10. TiffInv'
  BY DEF TiffInv, Open
<1>11. AdaptorInv'
  BY Names, OwnImage
     DEF Types, HeapOK, StreamOK, AdaptorInv, Lent, FieldInv, Points, Open, Works,
         Decoding
<1>12. PictureInv'
  BY DEF PictureInv
<1> QED
  BY <1>1, <1>2, <1>3, <1>4, <1>5, <1>6, <1>7, <1>8, <1>9, <1>10, <1>11, <1>12 DEF Types

LEMMA NewStreamKeeps ==
  ASSUME IInv, NEW w \in Workers, NewStream(w)
  PROVE  IInv'
<1> USE DEF IInv, NewStream, At, Goto, Unused, Holding, javaVars, imageVars, streamVars,
            localVars
<1>1. JavaOK'
  BY DEF Types, JavaOK
<1>2. HeapOK'
  BY Names, OwnImage DEF Types, HeapOK, Works, Decoding
<1>3. StreamOK'
  BY Names DEF Types, StreamOK
<1>4. WorkerOK'
  BY DEF Types, WorkerOK, Steps, Works, Decoding
<1>5. CallInv'
  BY DEF CallInv, Busy, Holds
<1>6. RootInv' /\ GivenInv'
  <2>1. Works(w)
    BY DEF Works, Decoding
  <2>2. \A b \in Addr : heap[b] = "image" => heap'[b] = "image"
    BY <2>1
  <2>3. PICK step \in Deleting \cup Decoding : pc' = [pc EXCEPT ![w] = step]
    BY DEF Deleting, Decoding
  <2> QED
    BY <2>1, <2>2, <2>3, QuietRoots
<1>7. FieldInv'
  BY OwnImage DEF Types, HeapOK, FieldInv, Points, Works, Decoding
<1>8. StreamInv'
  BY DEF StreamInv
<1>9. DeleteInv'
  BY OwnImage DEF DeleteInv, Works, Deleting, Decoding
<1>10. TiffInv'
  BY Names, OwnImage DEF Types, HeapOK, StreamOK, TiffInv, Open, Works, Decoding
<1>11. AdaptorInv'
  BY Names DEF Types, WorkerOK, AdaptorInv, Lent, TiffInv, StreamInv, Open
<1>12. PictureInv'
  BY DEF PictureInv
<1> QED
  BY <1>1, <1>2, <1>3, <1>4, <1>5, <1>6, <1>7, <1>8, <1>9, <1>10, <1>11, <1>12 DEF Types

LEMMA MakeFileStreamOpensKeeps ==
  ASSUME IInv, NEW w \in Workers, At(w, "makeFileStream"),
         m_inStream' = [m_inStream EXCEPT ![tiffInputStream[image[w]]] =
                                            javaInputStreamAdaptor[image[w]]],
         UNCHANGED <<javaVars, imageVars, picture>>, NEW a \in Addr, Unused(a),
         Holding(a, "tiff"),
         clientdata' = [clientdata EXCEPT ![a] = tiffInputStream[image[w]]],
         m_tif' = [m_tif EXCEPT ![tiffInputStream[image[w]]] = a],
         tif' = [tif EXCEPT ![w] = a],
         Goto(w, "malloc"), UNCHANGED <<fEnv, thiz, image, given, file>>
  PROVE  IInv'
<1> USE DEF IInv, At, Goto, Unused, Holding, javaVars, imageVars, streamVars, localVars
<1>1. JavaOK'
  BY DEF Types, JavaOK
<1>2. HeapOK'
  BY DEF Types, HeapOK
<1>3. StreamOK'
  BY Names, OwnImage DEF Types, StreamOK, HeapOK, WorkerOK, Works, Deleting, Decoding
<1>4. WorkerOK'
  BY Names DEF Types, WorkerOK, Steps, Works, Decoding
<1>5. CallInv'
  BY DEF CallInv, Busy, Holds
<1>6. RootInv' /\ GivenInv'
  <2>1. Works(w)
    BY DEF Works, Decoding
  <2>2. \A b \in Addr : heap[b] = "image" => heap'[b] = "image"
    BY <2>1
  <2>3. PICK step \in Deleting \cup Decoding : pc' = [pc EXCEPT ![w] = step]
    BY DEF Deleting, Decoding
  <2> QED
    BY <2>1, <2>2, <2>3, QuietRoots
<1>7. FieldInv'
  BY DEF FieldInv, Points
<1>8. StreamInv'
  BY Names, OwnImage
     DEF Types, HeapOK, StreamOK, StreamInv, FieldInv, Points, TiffInv, Works, Decoding
<1>9. DeleteInv'
  BY OwnImage DEF DeleteInv, FieldInv, Points, Works, Deleting, Decoding
<1>10. TiffInv'
  BY Names, OwnImage
     DEF Types, HeapOK, StreamOK, WorkerOK, TiffInv, FieldInv, Points, Open, Works,
         Decoding
<1>11. AdaptorInv'
  BY Names
     DEF Types, HeapOK, StreamOK, WorkerOK, AdaptorInv, Lent, TiffInv, FieldInv, Points,
         Open, Works, Decoding
<1>12. PictureInv'
  BY DEF PictureInv
<1> QED
  BY <1>1, <1>2, <1>3, <1>4, <1>5, <1>6, <1>7, <1>8, <1>9, <1>10, <1>11, <1>12 DEF Types

LEMMA MakeFileStreamFailsKeeps ==
  ASSUME IInv, NEW w \in Workers, MakeFileStream(w),
         Return(w), UNCHANGED <<heap, clientdata, m_tif>>
  PROVE  IInv'
<1> USE DEF IInv, MakeFileStream, At, Goto, Return, Unused, Holding, javaVars, imageVars,
            streamVars, localVars
<1>1. JavaOK'
  BY DEF Types, JavaOK
<1>2. HeapOK'
  BY DEF Types, HeapOK
<1>3. StreamOK'
  BY Names, OwnImage DEF Types, StreamOK, HeapOK, WorkerOK, Works, Deleting, Decoding
<1>4. WorkerOK'
  BY Names DEF Types, WorkerOK, Steps, Works, Deleting, Decoding
<1>5. CallInv'
  BY DEF Types, WorkerOK, CallInv, Busy, Holds
<1>6. RootInv' /\ GivenInv'
  BY ReturnRoots DEF Works, Deleting, Decoding
<1>7. FieldInv'
  BY DEF FieldInv, Points
<1>8. StreamInv'
  BY DEF StreamInv
<1>9. DeleteInv'
  BY DEF DeleteInv, Deleting
<1>10. TiffInv'
  BY DEF Types, WorkerOK, TiffInv, Open
<1>11. AdaptorInv'
  BY Names
     DEF Types, HeapOK, WorkerOK, AdaptorInv, Lent, TiffInv, FieldInv, Points, Open,
         Works, Decoding
<1>12. PictureInv'
  BY DEF PictureInv
<1> QED
  BY <1>1, <1>2, <1>3, <1>4, <1>5, <1>6, <1>7, <1>8, <1>9, <1>10, <1>11, <1>12 DEF Types

LEMMA MallocSucceedsKeeps ==
  ASSUME IInv, NEW w \in Workers, Malloc(w),
         NEW a \in Addr, Unused(a), Holding(a, "pixels"),
         buffer' = [buffer EXCEPT ![image[w]] = a],
         picture' = [picture EXCEPT ![a] = None],
         Goto(w, "readRGBA")
  PROVE  IInv'
<1> USE DEF IInv, Malloc, At, Goto, Unused, Holding, javaVars, imageVars, streamVars,
            localVars
<1>1. JavaOK'
  BY DEF Types, JavaOK
<1>2. HeapOK'
  BY Names DEF Types, HeapOK, WorkerOK, Works, Decoding
<1>3. StreamOK'
  BY DEF Types, StreamOK
<1>4. WorkerOK'
  BY DEF Types, WorkerOK, Steps, Works, Decoding
<1>5. CallInv'
  BY DEF CallInv, Busy, Holds
<1>6. RootInv' /\ GivenInv'
  <2>1. Works(w)
    BY DEF Works, Decoding
  <2>2. \A b \in Addr : heap[b] = "image" => heap'[b] = "image"
    BY <2>1
  <2>3. PICK step \in Deleting \cup Decoding : pc' = [pc EXCEPT ![w] = step]
    BY DEF Deleting, Decoding
  <2> QED
    BY <2>1, <2>2, <2>3, QuietRoots
<1>7. FieldInv'
  BY OwnImage DEF Types, HeapOK, FieldInv, Points, Works, Decoding
<1>8. StreamInv'
  BY DEF StreamInv
<1>9. DeleteInv'
  BY OwnImage DEF DeleteInv, Works, Deleting, Decoding
<1>10. TiffInv'
  BY Names, OwnImage DEF Types, HeapOK, TiffInv, Open, Works, Decoding
<1>11. AdaptorInv'
  BY DEF AdaptorInv, Lent, Open
<1>12. PictureInv'
  BY OwnImage DEF Types, HeapOK, PictureInv, FieldInv, Points, Works, Decoding
<1> QED
  BY <1>1, <1>2, <1>3, <1>4, <1>5, <1>6, <1>7, <1>8, <1>9, <1>10, <1>11, <1>12 DEF Types

LEMMA MallocFailsKeeps ==
  ASSUME IInv, NEW w \in Workers, Malloc(w),
         buffer' = [buffer EXCEPT ![image[w]] = NULL],
         Goto(w, "decoded"), UNCHANGED <<heap, picture>>
  PROVE  IInv'
<1> USE DEF IInv, Malloc, At, Goto, Unused, Holding, javaVars, imageVars, streamVars,
            localVars
<1>1. JavaOK'
  BY DEF Types, JavaOK
<1>2. HeapOK'
  BY Names DEF Types, HeapOK, WorkerOK, Works, Decoding
<1>3. StreamOK'
  BY DEF Types, StreamOK
<1>4. WorkerOK'
  BY DEF Types, WorkerOK, Steps, Works, Decoding
<1>5. CallInv'
  BY DEF CallInv, Busy, Holds
<1>6. RootInv' /\ GivenInv'
  <2>1. Works(w)
    BY DEF Works, Decoding
  <2>2. \A b \in Addr : heap[b] = "image" => heap'[b] = "image"
    BY <2>1
  <2>3. PICK step \in Deleting \cup Decoding : pc' = [pc EXCEPT ![w] = step]
    BY DEF Deleting, Decoding
  <2> QED
    BY <2>1, <2>2, <2>3, QuietRoots
<1>7. FieldInv'
  BY DEF FieldInv, Points
<1>8. StreamInv'
  BY DEF StreamInv
<1>9. DeleteInv'
  BY DEF DeleteInv, Deleting
<1>10. TiffInv'
  BY OwnImage DEF TiffInv, Open, Works, Decoding
<1>11. AdaptorInv'
  BY DEF AdaptorInv, Lent, Open
<1>12. PictureInv'
  BY OwnImage DEF Types, HeapOK, PictureInv, Works, Decoding
<1> QED
  BY <1>1, <1>2, <1>3, <1>4, <1>5, <1>6, <1>7, <1>8, <1>9, <1>10, <1>11, <1>12 DEF Types

LEMMA ReadRGBAKeeps ==
  ASSUME IInv, NEW w \in Workers, ReadRGBA(w)
  PROVE  IInv'
<1> USE DEF IInv, ReadRGBA, At, Goto, javaVars, imageVars, streamVars, localVars
<1>1. JavaOK'
  BY DEF Types, JavaOK
<1>2. HeapOK'
  BY Names, OwnImage DEF Types, HeapOK, WorkerOK, Works, Deleting, Decoding
<1>3. StreamOK'
  BY DEF Types, StreamOK
<1>4. WorkerOK'
  BY DEF Types, WorkerOK, Steps, Works, Decoding
<1>5. CallInv'
  BY DEF CallInv, Busy, Holds
<1>6. RootInv' /\ GivenInv'
  <2>1. Works(w)
    BY DEF Works, Decoding
  <2>2. \A b \in Addr : heap[b] = "image" => heap'[b] = "image"
    BY <2>1
  <2>3. PICK step \in Deleting \cup Decoding : pc' = [pc EXCEPT ![w] = step]
    BY DEF Deleting, Decoding
  <2> QED
    BY <2>1, <2>2, <2>3, QuietRoots
<1>7. FieldInv'
  BY DEF FieldInv, Points
<1>8. StreamInv'
  BY DEF StreamInv
<1>9. DeleteInv'
  BY DEF DeleteInv, Deleting
<1>10. TiffInv'
  BY DEF TiffInv, Open
<1>11. AdaptorInv'
  BY DEF AdaptorInv, Lent, Open
<1>12. PictureInv'
  BY Names, OwnImage DEF Types, HeapOK, PictureInv, FieldInv, Points, Works, Decoding
<1> QED
  BY <1>1, <1>2, <1>3, <1>4, <1>5, <1>6, <1>7, <1>8, <1>9, <1>10, <1>11, <1>12 DEF Types

LEMMA ReadRGBAFailsKeeps ==
  ASSUME IInv, NEW w \in Workers, ReadRGBAFails(w)
  PROVE  IInv'
<1> USE DEF IInv, ReadRGBAFails, At, Goto, Freed, javaVars, imageVars, streamVars,
            localVars
<1>1. JavaOK'
  BY DEF Types, JavaOK
<1>2. HeapOK'
  BY Names, OwnImage DEF Types, HeapOK, Works, Decoding
<1>3. StreamOK'
  BY DEF Types, StreamOK
<1>4. WorkerOK'
  BY DEF Types, WorkerOK, Steps, Works, Decoding
<1>5. CallInv'
  BY DEF CallInv, Busy, Holds
<1>6. RootInv' /\ GivenInv'
  <2>1. Works(w)
    BY DEF Works, Decoding
  <2>2. \A b \in Addr : heap[b] = "image" => heap'[b] = "image"
    BY <2>1, Names, OwnImage DEF FieldInv, Points
  <2>3. PICK step \in Deleting \cup Decoding : pc' = [pc EXCEPT ![w] = step]
    BY DEF Deleting, Decoding
  <2> QED
    BY <2>1, <2>2, <2>3, QuietRoots
<1>7. FieldInv'
  BY Names, OwnImage DEF Types, HeapOK, FieldInv, Points, Works, Decoding
<1>8. StreamInv'
  BY Names, OwnImage DEF Types, StreamOK, StreamInv, FieldInv, Points, Works, Decoding
<1>9. DeleteInv'
  BY DEF DeleteInv, Deleting
<1>10. TiffInv'
  BY Names, OwnImage DEF Types, WorkerOK, TiffInv, FieldInv, Points, Open, Works, Decoding
<1>11. AdaptorInv'
  BY DEF AdaptorInv, Lent, Open
<1>12. PictureInv'
  BY OwnImage DEF Types, HeapOK, PictureInv, Works, Decoding
<1> QED
  BY <1>1, <1>2, <1>3, <1>4, <1>5, <1>6, <1>7, <1>8, <1>9, <1>10, <1>11, <1>12 DEF Types

LEMMA DecodedKeeps ==
  ASSUME IInv, NEW w \in Workers, Decoded(w)
  PROVE  IInv'
<1> USE DEF IInv, Decoded, At, Goto, Freed, javaVars, imageVars, streamVars, localVars
<1>1. JavaOK'
  BY DEF Types, JavaOK
<1>2. HeapOK'
  BY DEF Types, HeapOK
<1>3. StreamOK'
  BY DEF Types, StreamOK
<1>4. WorkerOK'
  BY DEF Types, WorkerOK, Steps, Works, Decoding
<1>5. CallInv'
  BY DEF CallInv, Busy, Holds
<1>6. RootInv' /\ GivenInv'
  <2>1. Works(w)
    BY DEF Works, Decoding
  <2>2. \A b \in Addr : heap[b] = "image" => heap'[b] = "image"
    BY <2>1 DEF TiffInv, Open
  <2>3. PICK step \in Deleting \cup Decoding : pc' = [pc EXCEPT ![w] = step]
    BY DEF Deleting, Decoding
  <2> QED
    BY <2>1, <2>2, <2>3, QuietRoots
<1>7. FieldInv'
  <2>1. \A b \in Addr : heap[b] # "tiff" => heap'[b] = heap[b]
    BY DEF TiffInv, Open
  <2>2. \A b \in Addr : /\ buffer[b] \in Pointer
                        /\ javaInputStreamAdaptor[b] \in Pointer
                        /\ tiffInputStream[b] \in Pointer
    BY DEF Types, HeapOK
  <2> QED
    BY <2>1, <2>2, Names DEF FieldInv, Points
<1>8. StreamInv'
  <2>1. \A b \in Addr : \/ heap'[b] = heap[b]
                        \/ b = tif[w] /\ heap'[b] = "free" /\ clientdata[b] = NULL
    OBVIOUS
  <2>2. heap[tif[w]] = "tiff"
    BY DEF TiffInv, Open
  <2>3. \A b \in Addr : m_tif[b] \in Pointer /\ clientdata[b] \in Pointer
    BY DEF Types, StreamOK
  <2> QED
    BY <2>1, <2>2, <2>3, Names DEF StreamInv
<1>9. DeleteInv'
  BY DEF DeleteInv, Deleting
<1>10. TiffInv'
  BY Names DEF Types, WorkerOK, TiffInv, Open
<1>11. AdaptorInv'
  BY DEF AdaptorInv, Lent, Open
<1>12. PictureInv'
  BY DEF PictureInv
<1> QED
  BY <1>1, <1>2, <1>3, <1>4, <1>5, <1>6, <1>7, <1>8, <1>9, <1>10, <1>11, <1>12 DEF Types

LEMMA CopyKeeps ==
  ASSUME IInv, NEW w \in Workers, Copy(w)
  PROVE  IInv'
<1> USE DEF IInv, Copy, At, Goto, Return, javaVars, imageVars, streamVars, localVars
<1>1. JavaOK'
  BY DEF Types, JavaOK
<1>2. HeapOK'
  BY DEF Types, HeapOK
<1>3. StreamOK'
  BY DEF Types, StreamOK
<1>4. WorkerOK'
  BY Names DEF Types, WorkerOK, Steps, Works, Deleting, Decoding
<1>5. CallInv'
  BY DEF Types, WorkerOK, CallInv, Busy, Holds
<1>6. RootInv' /\ GivenInv'
  BY ReturnRoots DEF Works, Deleting, Decoding
<1>7. FieldInv'
  BY DEF FieldInv, Points
<1>8. StreamInv'
  BY DEF StreamInv
<1>9. DeleteInv'
  BY DEF DeleteInv, Deleting
<1>10. TiffInv'
  BY DEF TiffInv, Open
<1>11. AdaptorInv'
  BY Names, OwnImage DEF Types, HeapOK, AdaptorInv, Lent, Open, Works, Decoding
<1>12. PictureInv'
  BY DEF Types, WorkerOK, PictureInv
<1> QED
  BY <1>1, <1>2, <1>3, <1>4, <1>5, <1>6, <1>7, <1>8, <1>9, <1>10, <1>11, <1>12 DEF Types

LEMMA FileStreamKeeps ==
  ASSUME IInv, NEW w \in Workers, MakeFileStream(w)
  PROVE  IInv'
<1>1. CASE Return(w) /\ UNCHANGED <<heap, clientdata, m_tif>>
  BY <1>1, MakeFileStreamFailsKeeps
<1>2. CASE /\ \E a \in Addr :
                 /\ Unused(a)
                 /\ Holding(a, "tiff")
                 /\ clientdata' = [clientdata EXCEPT ![a] = tiffInputStream[image[w]]]
                 /\ m_tif' = [m_tif EXCEPT ![tiffInputStream[image[w]]] = a]
                 /\ tif' = [tif EXCEPT ![w] = a]
           /\ Goto(w, "malloc")
           /\ UNCHANGED <<fEnv, thiz, image, given, file>>
  BY <1>2, MakeFileStreamOpensKeeps DEF MakeFileStream
<1> QED
  BY <1>1, <1>2 DEF MakeFileStream

LEMMA MallocKeeps ==
  ASSUME IInv, NEW w \in Workers, Malloc(w)
  PROVE  IInv'
BY MallocSucceedsKeeps, MallocFailsKeeps DEF Malloc

LEMMA NextKeeps == IInv /\ [Next]_vars => IInv'
<1> SUFFICES ASSUME IInv, [Next]_vars PROVE IInv'
  OBVIOUS
<1>1. ASSUME NEW w \in Workers, NEW o \in Objects,
             \/ Construct(w, o) \/ Release(w, o) \/ Forget(w, o)
             \/ Decode(w, o, "TIFFOpen") \/ Decode(w, o, "newAdaptor")
      PROVE  IInv'
  BY <1>1, ConstructKeeps, ReleaseKeeps, ForgetKeeps, DecodeKeeps
<1>2. ASSUME NEW w \in Workers,
             \/ NewTiffImage(w) \/ NewFails(w) \/ ReadOld(w) \/ FreeBuffer(w)
             \/ DeleteAdaptor(w) \/ CloseTiff(w) \/ FreeStream(w) \/ DeleteImage(w)
             \/ Store(w)
      PROVE  IInv'
  BY <1>2, NewTiffImageKeeps, NewFailsKeeps, ReadOldKeeps, FreeBufferKeeps,
     DeleteAdaptorKeeps, CloseTiffKeeps, FreeStreamKeeps, DeleteImageKeeps, StoreKeeps
<1>3. ASSUME NEW w \in Workers,
             \/ TIFFOpen(w) \/ OpenFails(w) \/ NewAdaptor(w) \/ NewStream(w)
             \/ MakeFileStream(w) \/ Malloc(w) \/ ReadRGBA(w) \/ ReadRGBAFails(w)
             \/ Decoded(w) \/ Copy(w)
      PROVE  IInv'
  BY <1>3, TIFFOpenKeeps, OpenFailsKeeps, NewAdaptorKeeps, NewStreamKeeps,
     FileStreamKeeps,
     MallocKeeps, ReadRGBAKeeps, ReadRGBAFailsKeeps, DecodedKeeps, CopyKeeps
<1>4. ASSUME NEW o \in Objects, Finalize(o)
      PROVE  IInv'
  BY <1>4, FinalizeKeeps
<1>5. CASE UNCHANGED vars
  <2> USE <1>5 DEF IInv, vars
  <2>1. Types'
    BY DEF Types, JavaOK, HeapOK, StreamOK, WorkerOK, Works
  <2>2. CallInv' /\ RootInv' /\ GivenInv'
    BY DEF CallInv, Busy, Holds, At, RootInv, GivenInv, Live, Works
  <2>3. FieldInv' /\ StreamInv'
    BY DEF FieldInv, Points, StreamInv
  <2>4. DeleteInv' /\ TiffInv'
    BY DEF DeleteInv, TiffInv, Open, At
  <2>5. AdaptorInv' /\ PictureInv'
    BY DEF AdaptorInv, PictureInv, Lent, Open
  <2> QED
    BY <2>1, <2>2, <2>3, <2>4, <2>5
<1> QED
  BY <1>1, <1>2, <1>3, <1>4, <1>5 DEF Next, Call, Step

-----------------------------------------------------------------------------
LEMMA Invariance == Spec => []IInv
BY InitInv, NextKeeps, PTL DEF Spec

\* The fields of every object and block keep their types, and a call that works
\* on a native object has one (TiffImage_jni.cpp:24-29, 99-103).
THEOREM ImageTypes == Spec => []TypeOK
BY Invariance, InvImplies, PTL

\* No call reads, writes or frees a block that was freed or is another by now,
\* for any number of objects, threads, decodes, releases and finalizations and
\* any choice the allocator makes (TiffImage_jni.cpp:22-31, TiffImage.cpp:30-44).
THEOREM AlwaysMemorySafe == Spec => []MemorySafe
<1>1. ASSUME IInv, NEW w \in Workers, NEW t \in Touches(w)
      PROVE  t[1] \in Addr /\ heap[t[1]] = t[2]
  <2> USE <1>1 DEF IInv
  <2>1. CASE pc[w] \in Deleting
    <3>1. image[w] \in Addr /\ heap[image[w]] = "image"
      BY <2>1, OwnImage DEF Works
    <3>2. CASE At(w, "freeBuffer") \/ At(w, "deleteAdaptor") \/ At(w, "deleteImage")
      BY <3>1, <3>2, Names DEF Touches, At, FieldInv, Points, Types, HeapOK
    <3>3. CASE At(w, "closeTiff") \/ At(w, "freeStream")
      <4>1. /\ tiffInputStream[image[w]] \in Addr
            /\ heap[tiffInputStream[image[w]]] = "stream"
        BY <3>1, <3>3, Names DEF At, DeleteInv, FieldInv, Points, Types, HeapOK
      <4> QED
        BY <3>1, <3>3, <4>1, Names DEF Touches, At, StreamInv, Types, StreamOK
    <3> QED
      BY <2>1, <3>2, <3>3 DEF Deleting, At
  <2>2. CASE pc[w] \in Decoding
    <3>1. image[w] \in Addr /\ heap[image[w]] = "image"
      BY <2>2, OwnImage DEF Works
    <3>2. CASE Open(w)
      <4>1. tif[w] \in Addr /\ heap[tif[w]] = "tiff"
        BY <3>2, Names DEF TiffInv, Types, WorkerOK
      <4>2. clientdata[tif[w]] # NULL =>
              clientdata[tif[w]] \in Addr /\ heap[clientdata[tif[w]]] = "stream"
        BY <4>1, Names DEF StreamInv, Types, StreamOK
      <4>3. At(w, "readRGBA") =>
              buffer[image[w]] \in Addr /\ heap[buffer[image[w]]] = "pixels"
        BY <3>1, Names DEF TiffInv, FieldInv, Points, Types, HeapOK
      <4> QED
        BY <3>1, <3>2, <4>1, <4>2, <4>3 DEF Open, Touches, At
    <3>3. CASE ~Open(w)
      BY <2>2, <3>1, <3>3, Names
         DEF Decoding, Open, Touches, At, FieldInv, Points, TiffInv, Types, HeapOK
    <3> QED
      BY <3>2, <3>3
  <2>3. CASE pc[w] \notin Deleting \cup Decoding
    BY <2>3 DEF Touches, At, Deleting, Decoding
  <2> QED
    BY <2>1, <2>2, <2>3
<1>2. IInv => MemorySafe
  BY <1>1 DEF MemorySafe
<1> QED
  BY <1>2, Invariance, PTL

\* Java is called only through the environment and the references of the call
\* that is running, whatever adaptors were left behind by earlier ones
\* (JavaInputStreamAdaptor.h:27-29, TiffImage.cpp:101-103).
THEOREM EnvAlwaysCurrent == Spec => []JavaEnvCurrent
<1>1. ASSUME IInv, NEW w \in Workers, NEW a \in CallsJavaBy(w)
      PROVE  a \in Addr /\ heap[a] = "adaptor" /\ fEnv[a] = w
  <2>1. Works(w) /\ Lent(w) /\ a = javaInputStreamAdaptor[image[w]]
    BY <1>1 DEF IInv, CallsJavaBy, At, AdaptorInv, Open, Works, Decoding
  <2>2. image[w] \in Addr
    BY <1>1, <2>1, OwnImage
  <2> QED
    BY <1>1, <2>1, <2>2, Names DEF IInv, Lent, FieldInv, Points, Types, HeapOK
<1>2. IInv => JavaEnvCurrent
  BY <1>1 DEF JavaEnvCurrent
<1> QED
  BY <1>2, Invariance, PTL

\* What a decode hands to Java is the picture it was asked for, with the size of
\* that picture, after any number of decodes before it (TiffImage_jni.cpp:117-130,
\* TiffImage.java:84-96).
THEOREM PicturesAsAsked == Spec => []ReturnsWhatWasAsked
<1>1. IInv => ReturnsWhatWasAsked
  BY DEF IInv, PictureInv, ReturnsWhatWasAsked, At
<1> QED
  BY <1>1, Invariance, PTL

-----------------------------------------------------------------------------
(***************************************************************************)
(* No block is orphaned when no object decodes more than once, for any     *)
(* number of objects and threads, any failures and any allocator.          *)
(***************************************************************************)
Empty(a) == /\ buffer[a] = NULL
            /\ javaInputStreamAdaptor[a] = NULL
            /\ tiffInputStream[a] = NULL

\* A field that a decode is about to overwrite is NULL: the image was empty when
\* its only decode began.
FreshInv ==
  /\ \A o \in Objects : Live(o) /\ decodes[o] = 0 => Empty(mNativeContext[o])
  /\ \A w \in Workers : given[w] # NULL => Empty(given[w])
  /\ \A w \in Workers : pc[w] \in {"TIFFOpen", "newAdaptor"} => Empty(image[w])
  /\ \A w \in Workers :
       pc[w] \in {"newStream", "makeFileStream", "malloc"} => buffer[image[w]] = NULL
  /\ \A w \in Workers : At(w, "newStream") => tiffInputStream[image[w]] = NULL
  /\ \A w \in Workers : pc[w] \in Decoding => decodes[thiz[w]] > 0

\* What names each block: an object or the call that makes it, a field of an
\* image, or the call that has a file open.
Held(field, kind) == \A x \in Addr : heap[x] = kind => \E a \in Addr : field[a] = x
ImagesOwned ==
  \A x \in Addr : heap[x] = "image" =>
    \/ \E o \in Objects : Live(o) /\ mNativeContext[o] = x
    \/ \E w \in Workers : given[w] = x
PixelsOwned == Held(buffer, "pixels")
AdaptorsOwned == Held(javaInputStreamAdaptor, "adaptor")
StreamsOwned == Held(tiffInputStream, "stream")
TiffsOwned ==
  \A x \in Addr : heap[x] = "tiff" /\ clientdata[x] = NULL =>
    \E w \in Workers : Open(w) /\ tif[w] = x
OwnerInv == ImagesOwned /\ PixelsOwned /\ AdaptorsOwned /\ StreamsOwned /\ TiffsOwned
-----------------------------------------------------------------------------
(***************************************************************************)
(* One lemma for each action, or for each way a handler may go.  First it  *)
(* is settled which native objects are live afterwards, then what names    *)
(* the blocks of each kind.                                                *)
(***************************************************************************)
LEMMA InitOwners == Init => FreshInv /\ OwnerInv
BY DEF Init, FreshInv, OwnerInv, ImagesOwned, PixelsOwned, AdaptorsOwned, StreamsOwned,
       TiffsOwned, Held, Live, Open, At, Decoding

\* An action that leaves the native objects and their owners alone.
LEMMA ImagesKept ==
  ASSUME ImagesOwned, UNCHANGED mNativeContext,
         \A p \in Objects : Live(p)' = Live(p),
         \A v \in Workers : given'[v] = given[v],
         \A x \in Addr : heap'[x] = "image" => heap[x] = "image"
  PROVE  ImagesOwned'
BY DEF ImagesOwned

\* A step of a worker that has no file open leaves the files of others alone.
LEMMA TiffsKept ==
  ASSUME TiffsOwned, pc \in [Workers -> Steps], NEW w \in Workers, ~Open(w),
         NEW step, pc' = [pc EXCEPT ![w] = step], UNCHANGED <<tif, clientdata>>,
         \A x \in Addr : heap'[x] = "tiff" /\ clientdata[x] = NULL => heap[x] = "tiff"
  PROVE  TiffsOwned'
<1>1. \A v \in Workers : Open(v) => pc'[v] = pc[v]
  OBVIOUS
<1> QED
  BY <1>1 DEF TiffsOwned, Open

LEMMA ConstructOwners ==
  ASSUME MaxDecodes <= 1, IInv, FreshInv, OwnerInv, NEW w \in Workers, NEW o \in Objects,
         Construct(w, o)
  PROVE  FreshInv' /\ OwnerInv'
<1> USE DEF IInv, Construct, At, Goto, javaVars, imageVars, streamVars, localVars
<1>1. \A p \in Objects : Live(p)' = Live(p)
  BY DEF Live
<1>2. FreshInv'
  BY <1>1 DEF FreshInv, Empty, Decoding
<1>3. ImagesOwned'
  BY <1>1 DEF OwnerInv, ImagesOwned
<1>4. PixelsOwned'
  BY <1>1 DEF OwnerInv, PixelsOwned, Held
<1>5. AdaptorsOwned'
  BY <1>1 DEF OwnerInv, AdaptorsOwned, Held
<1>6. StreamsOwned'
  BY <1>1 DEF OwnerInv, StreamsOwned, Held
<1>7. TiffsOwned'
  BY <1>1 DEF OwnerInv, TiffsOwned, Open
<1> QED
  BY <1>2, <1>3, <1>4, <1>5, <1>6, <1>7 DEF OwnerInv

LEMMA NewTiffImageOwners ==
  ASSUME MaxDecodes <= 1, IInv, FreshInv, OwnerInv, NEW w \in Workers, NewTiffImage(w)
  PROVE  FreshInv' /\ OwnerInv'
<1> USE DEF IInv, NewTiffImage, At, Goto, Unused, Holding, javaVars, imageVars,
            streamVars, localVars
<1>1. \A p \in Objects : Live(p)' = Live(p)
  BY DEF Live
<1>2. FreshInv'
  BY <1>1 DEF Types, HeapOK, FreshInv, Empty, Decoding
<1>3. ImagesOwned'
  BY <1>1, Names DEF Types, WorkerOK, OwnerInv, ImagesOwned, GivenInv
<1>4. PixelsOwned'
  BY <1>1 DEF OwnerInv, PixelsOwned, Held, FieldInv, Points
<1>5. AdaptorsOwned'
  BY <1>1 DEF OwnerInv, AdaptorsOwned, Held, FieldInv, Points
<1>6. StreamsOwned'
  BY <1>1 DEF OwnerInv, StreamsOwned, Held, FieldInv, Points
<1>7. TiffsOwned'
  BY <1>1 DEF OwnerInv, TiffsOwned, Open
<1> QED
  BY <1>2, <1>3, <1>4, <1>5, <1>6, <1>7 DEF OwnerInv

LEMMA NewFailsOwners ==
  ASSUME MaxDecodes <= 1, IInv, FreshInv, OwnerInv, NEW w \in Workers, NewFails(w)
  PROVE  FreshInv' /\ OwnerInv'
<1> USE DEF IInv, NewFails, At, Goto, Return, javaVars, imageVars, streamVars, localVars
<1>1. \A p \in Objects : Live(p)' = Live(p)
  BY DEF Live
<1>2. FreshInv'
  BY <1>1 DEF FreshInv, Empty, Decoding
<1>3. ImagesOwned'
  BY <1>1 DEF OwnerInv, ImagesOwned, GivenInv
<1>4. PixelsOwned'
  BY <1>1 DEF OwnerInv, PixelsOwned, Held
<1>5. AdaptorsOwned'
  BY <1>1 DEF OwnerInv, AdaptorsOwned, Held
<1>6. StreamsOwned'
  BY <1>1 DEF OwnerInv, StreamsOwned, Held
<1>7. TiffsOwned'
  BY <1>1 DEF OwnerInv, TiffsOwned, Open
<1> QED
  BY <1>2, <1>3, <1>4, <1>5, <1>6, <1>7 DEF OwnerInv

LEMMA ReadOldOwners ==
  ASSUME MaxDecodes <= 1, IInv, FreshInv, OwnerInv, NEW w \in Workers, ReadOld(w)
  PROVE  FreshInv' /\ OwnerInv'
<1> USE DEF IInv, ReadOld, At, Goto, MustDelete, javaVars, imageVars, streamVars,
            localVars
<1>1. \A p \in Objects : Live(p)' = Live(p)
  BY DEF Live
<1>2. FreshInv'
  BY <1>1 DEF FreshInv, Empty, Decoding
<1>3. ImagesOwned'
  BY <1>1 DEF OwnerInv, ImagesOwned
<1>4. PixelsOwned'
  BY <1>1 DEF OwnerInv, PixelsOwned, Held
<1>5. AdaptorsOwned'
  BY <1>1 DEF OwnerInv, AdaptorsOwned, Held
<1>6. StreamsOwned'
  BY <1>1 DEF OwnerInv, StreamsOwned, Held
<1>7. TiffsOwned'
  BY <1>1 DEF OwnerInv, TiffsOwned, Open
<1> QED
  BY <1>2, <1>3, <1>4, <1>5, <1>6, <1>7 DEF OwnerInv

LEMMA FreeBufferOwners ==
  ASSUME MaxDecodes <= 1, IInv, FreshInv, OwnerInv, NEW w \in Workers, FreeBuffer(w)
  PROVE  FreshInv' /\ OwnerInv'
<1> USE DEF IInv, FreeBuffer, At, Goto, Freed, javaVars, imageVars, streamVars, localVars
<1>1. Works(w)
  BY DEF Works, Deleting
<1>2. \A p \in Objects : Live(p)' = Live(p)
  <2>1. \A b \in Addr : heap[b] = "image" => heap'[b] = "image"
    BY <1>1, Names, OwnImage DEF FieldInv, Points
  <2>2. PICK step \in Deleting \cup Decoding : pc' = [pc EXCEPT ![w] = step]
    BY DEF Deleting
  <2> QED
    BY <1>1, <2>1, <2>2, QuietRoots
<1>3. FreshInv'
  BY <1>1, <1>2 DEF FreshInv, Empty, Decoding
<1>4. ImagesOwned'
  BY <1>1, <1>2 DEF OwnerInv, ImagesOwned
<1>5. PixelsOwned'
  BY <1>1, <1>2 DEF OwnerInv, PixelsOwned, Held
<1>6. AdaptorsOwned'
  BY <1>1, <1>2 DEF OwnerInv, AdaptorsOwned, Held
<1>7. StreamsOwned'
  BY <1>1, <1>2 DEF OwnerInv, StreamsOwned, Held
<1>8. TiffsOwned'
  BY <1>1, <1>2 DEF OwnerInv, TiffsOwned, Open
<1> QED
  BY <1>3, <1>4, <1>5, <1>6, <1>7, <1>8 DEF OwnerInv

LEMMA DeleteAdaptorOwners ==
  ASSUME MaxDecodes <= 1, IInv, FreshInv, OwnerInv, NEW w \in Workers, DeleteAdaptor(w)
  PROVE  FreshInv' /\ OwnerInv'
<1> USE DEF IInv, DeleteAdaptor, At, Goto, Freed, javaVars, imageVars, streamVars,
            localVars
<1>1. Works(w)
  BY DEF Works, Deleting
<1>2. \A p \in Objects : Live(p)' = Live(p)
  <2>1. \A b \in Addr : heap[b] = "image" => heap'[b] = "image"
    BY <1>1, Names, OwnImage DEF FieldInv, Points
  <2>2. PICK step \in Deleting \cup Decoding : pc' = [pc EXCEPT ![w] = step]
    BY DEF Deleting
  <2> QED
    BY <1>1, <2>1, <2>2, QuietRoots
<1>3. FreshInv'
  BY <1>1, <1>2 DEF FreshInv, Empty, Decoding
<1>4. ImagesOwned'
  BY <1>1, <1>2 DEF OwnerInv, ImagesOwned
<1>5. PixelsOwned'
  BY <1>1, <1>2 DEF OwnerInv, PixelsOwned, Held
<1>6. AdaptorsOwned'
  BY <1>1, <1>2 DEF OwnerInv, AdaptorsOwned, Held
<1>7. StreamsOwned'
  BY <1>1, <1>2 DEF OwnerInv, StreamsOwned, Held
<1>8. TiffsOwned'
  <2>1. \A x \in Addr : heap'[x] = "tiff" /\ clientdata[x] = NULL => heap[x] = "tiff"
    BY <1>1
  <2>2. ~Open(w)
    BY DEF Open
  <2> QED
    BY <2>1, <2>2, TiffsKept DEF OwnerInv, Types, WorkerOK
<1> QED
  BY <1>3, <1>4, <1>5, <1>6, <1>7, <1>8 DEF OwnerInv

LEMMA CloseTiffOwners ==
  ASSUME MaxDecodes <= 1, IInv, FreshInv, OwnerInv, NEW w \in Workers, CloseTiff(w)
  PROVE  FreshInv' /\ OwnerInv'
<1> USE DEF IInv, CloseTiff, At, Goto, Freed, javaVars, imageVars, streamVars, localVars
<1>1. Works(w)
  BY DEF Works, Deleting
<1>2. \A p \in Objects : Live(p)' = Live(p)
  <2>1. \A b \in Addr : heap[b] = "image" => heap'[b] = "image"
    BY <1>1, Names, OwnImage DEF Types, HeapOK, DeleteInv, StreamInv
  <2>2. PICK step \in Deleting \cup Decoding : pc' = [pc EXCEPT ![w] = step]
    BY DEF Deleting
  <2> QED
    BY <1>1, <2>1, <2>2, QuietRoots
<1>3. FreshInv'
  BY <1>1, <1>2 DEF FreshInv, Empty, Decoding
<1>4. ImagesOwned'
  <2>1. \A x \in Addr : heap'[x] = "image" => heap[x] = "image"
    OBVIOUS
  <2>2. \A v \in Workers : given'[v] = given[v]
    OBVIOUS
  <2> QED
    BY <1>2, <2>1, <2>2, ImagesKept DEF OwnerInv
<1>5. PixelsOwned'
  BY <1>1, <1>2 DEF OwnerInv, PixelsOwned, Held
<1>6. AdaptorsOwned'
  BY <1>1, <1>2 DEF OwnerInv, AdaptorsOwned, Held
<1>7. StreamsOwned'
  BY <1>1, <1>2 DEF OwnerInv, StreamsOwned, Held
<1>8. TiffsOwned'
  <2>1. \A x \in Addr : heap'[x] = "tiff" /\ clientdata[x] = NULL => heap[x] = "tiff"
    BY <1>1
  <2>2. ~Open(w)
    BY DEF Open
  <2> QED
    BY <2>1, <2>2, TiffsKept DEF OwnerInv, Types, WorkerOK
<1> QED
  BY <1>3, <1>4, <1>5, <1>6, <1>7, <1>8 DEF OwnerInv

LEMMA FreeStreamOwners ==
  ASSUME MaxDecodes <= 1, IInv, FreshInv, OwnerInv, NEW w \in Workers, FreeStream(w)
  PROVE  FreshInv' /\ OwnerInv'
<1> USE DEF IInv, FreeStream, At, Goto, Freed, javaVars, imageVars, streamVars, localVars
<1>1. Works(w)
  BY DEF Works, Deleting
<1>2. \A p \in Objects : Live(p)' = Live(p)
  <2>1. \A b \in Addr : heap[b] = "image" => heap'[b] = "image"
    BY <1>1, Names, OwnImage DEF FieldInv, Points
  <2>2. PICK step \in Deleting \cup Decoding : pc' = [pc EXCEPT ![w] = step]
    BY DEF Deleting
  <2> QED
    BY <1>1, <2>1, <2>2, QuietRoots
<1>3. FreshInv'
  BY <1>1, <1>2 DEF FreshInv, Empty, Decoding
<1>4. ImagesOwned'
  <2>1. \A x \in Addr : heap'[x] = "image" => heap[x] = "image"
    OBVIOUS
  <2>2. \A v \in Workers : given'[v] = given[v]
    OBVIOUS
  <2> QED
    BY <1>2, <2>1, <2>2, ImagesKept DEF OwnerInv
<1>5. PixelsOwned'
  BY <1>1, <1>2 DEF OwnerInv, PixelsOwned, Held
<1>6. AdaptorsOwned'
  BY <1>1, <1>2 DEF OwnerInv, AdaptorsOwned, Held
<1>7. StreamsOwned'
  BY <1>1, <1>2 DEF OwnerInv, StreamsOwned, Held
<1>8. TiffsOwned'
  <2>1. \A x \in Addr : heap'[x] = "tiff" /\ clientdata[x] = NULL => heap[x] = "tiff"
    BY <1>1
  <2>2. ~Open(w)
    BY DEF Open
  <2> QED
    BY <2>1, <2>2, TiffsKept DEF OwnerInv, Types, WorkerOK
<1> QED
  BY <1>3, <1>4, <1>5, <1>6, <1>7, <1>8 DEF OwnerInv

LEMMA DeleteImageOwners ==
  ASSUME MaxDecodes <= 1, IInv, FreshInv, OwnerInv, NEW w \in Workers, DeleteImage(w)
  PROVE  FreshInv' /\ OwnerInv'
<1> USE DEF IInv, DeleteImage, At, Goto, Freed, javaVars, imageVars, streamVars, localVars
<1>1. \A p \in Objects : Live(p)' = (Live(p) /\ p # thiz[w])
  BY DEF Live, Types, WorkerOK
<1>2. FreshInv'
  <2>1. \A v \in Workers : pc'[v] = IF v = w THEN "store" ELSE pc[v]
    BY DEF Types, WorkerOK
  <2>2. \A v \in Workers : pc'[v] # "store" => pc'[v] = pc[v]
    BY <2>1
  <2>3. \A b : Empty(b)' = Empty(b)
    BY DEF Empty
  <2>4. \A p \in Objects : Live(p)' => Live(p)
    BY <1>1
  <2> QED
    BY <2>2, <2>3, <2>4 DEF FreshInv, Decoding
<1>3. ImagesOwned'
  <2>1. Works(w) /\ image[w] = mNativeContext[thiz[w]]
    BY DEF RootInv, Works, Deleting
  <2>2. \A x \in Addr : heap'[x] = "image" => heap[x] = "image" /\ x # image[w]
    OBVIOUS
  <2> QED
    BY <1>1, <2>1, <2>2 DEF OwnerInv, ImagesOwned
<1>4. PixelsOwned'
  BY <1>1 DEF OwnerInv, PixelsOwned, Held
<1>5. AdaptorsOwned'
  BY <1>1 DEF OwnerInv, AdaptorsOwned, Held
<1>6. StreamsOwned'
  BY <1>1 DEF OwnerInv, StreamsOwned, Held
<1>7. TiffsOwned'
  <2>1. \A x \in Addr : heap'[x] = "tiff" /\ clientdata[x] = NULL => heap[x] = "tiff"
    OBVIOUS
  <2>2. ~Open(w)
    BY DEF Open
  <2> QED
    BY <2>1, <2>2, TiffsKept DEF OwnerInv, Types, WorkerOK
<1> QED
  BY <1>2, <1>3, <1>4, <1>5, <1>6, <1>7 DEF OwnerInv

LEMMA StoreOwners ==
  ASSUME MaxDecodes <= 1, IInv, FreshInv, OwnerInv, NEW w \in Workers, Store(w)
  PROVE  FreshInv' /\ OwnerInv'
<1> USE DEF IInv, Store, At, Goto, Stored, Return, javaVars, imageVars, streamVars,
            localVars
<1>1. \A p \in Objects : Live(p)' = IF p = thiz[w] THEN given[w] # NULL ELSE Live(p)
  BY OneWorker DEF Live, Types, JavaOK, WorkerOK, Busy
<1>2. FreshInv'
  <2>1. thiz[w] \in Objects
    BY DEF CallInv, Busy
  <2>2. \A p \in Objects :
          mNativeContext'[p] = IF p = thiz[w] THEN given[w] ELSE mNativeContext[p]
    BY <2>1 DEF Types, JavaOK
  <2>3. \A v \in Workers : v # w => /\ pc'[v] = pc[v] /\ given'[v] = given[v]
                                   /\ image'[v] = image[v] /\ thiz'[v] = thiz[v]
    OBVIOUS
  <2>4. pc'[w] = "idle" /\ given'[w] = NULL
    BY DEF Types, WorkerOK
  <2>5. \A p \in Objects : Live(p)' /\ decodes[p] = 0 => Empty(mNativeContext'[p])
    BY <1>1, <2>2 DEF FreshInv
  <2> QED
    BY <2>3, <2>4, <2>5 DEF FreshInv, Empty, Decoding
<1>3. ImagesOwned'
  <2>1. thiz[w] \in Objects
    BY DEF CallInv, Busy
  <2>2. \A p \in Objects :
          mNativeContext'[p] = IF p = thiz[w] THEN given[w] ELSE mNativeContext[p]
    BY <2>1 DEF Types, JavaOK
  <2>3. \A v \in Workers : v # w => given'[v] = given[v]
    OBVIOUS
  <2>4. ~Live(thiz[w])
    BY DEF Live
  <2>5. \A x \in Addr : heap[x] = "image" /\ given[w] = x =>
          \E p \in Objects : Live(p)' /\ mNativeContext'[p] = x
    <3>1. PICK p \in Objects : p = thiz[w]
      BY <2>1
    <3>2. given[w] # NULL => Live(p)'
      BY <1>1, <3>1
    <3> QED
      BY <2>2, <3>1, <3>2, Names
  <2>6. \A x \in Addr, p \in Objects :
          Live(p) /\ mNativeContext[p] = x => Live(p)' /\ mNativeContext'[p] = x
    BY <1>1, <2>2, <2>4
  <2> QED
    BY <2>1, <2>3, <2>5, <2>6 DEF OwnerInv, ImagesOwned
<1>4. PixelsOwned'
  BY <1>1 DEF OwnerInv, PixelsOwned, Held
<1>5. AdaptorsOwned'
  BY <1>1 DEF OwnerInv, AdaptorsOwned, Held
<1>6. StreamsOwned'
  BY <1>1 DEF OwnerInv, StreamsOwned, Held
<1>7. TiffsOwned'
  BY <1>1 DEF OwnerInv, TiffsOwned, Open
<1> QED
  BY <1>2, <1>3, <1>4, <1>5, <1>6, <1>7 DEF OwnerInv

LEMMA ReleaseOwners ==
  ASSUME MaxDecodes <= 1, IInv, FreshInv, OwnerInv, NEW w \in Workers, NEW o \in Objects,
         Release(w, o)
  PROVE  FreshInv' /\ OwnerInv'
<1> USE DEF IInv, Release, Ready, At, Goto, javaVars, imageVars, streamVars, localVars
<1>1. \A p \in Objects : Live(p)' = Live(p)
  BY DEF Live
<1>2. FreshInv'
  BY <1>1 DEF FreshInv, Empty, Decoding
<1>3. ImagesOwned'
  BY <1>1 DEF OwnerInv, ImagesOwned
<1>4. PixelsOwned'
  BY <1>1 DEF OwnerInv, PixelsOwned, Held
<1>5. AdaptorsOwned'
  BY <1>1 DEF OwnerInv, AdaptorsOwned, Held
<1>6. StreamsOwned'
  BY <1>1 DEF OwnerInv, StreamsOwned, Held
<1>7. TiffsOwned'
  BY <1>1 DEF OwnerInv, TiffsOwned, Open
<1> QED
  BY <1>2, <1>3, <1>4, <1>5, <1>6, <1>7 DEF OwnerInv

LEMMA ForgetOwners ==
  ASSUME MaxDecodes <= 1, IInv, FreshInv, OwnerInv, NEW w \in Workers, NEW o \in Objects,
         Forget(w, o)
  PROVE  FreshInv' /\ OwnerInv'
<1> USE DEF IInv, Forget, Ready, At, javaVars, imageVars, streamVars, localVars
<1>1. \A p \in Objects : Live(p)' = Live(p)
  BY DEF Live
<1>2. FreshInv'
  BY <1>1 DEF FreshInv, Empty
<1>3. ImagesOwned'
  <2>1. \A x \in Addr : heap'[x] = "image" => heap[x] = "image"
    OBVIOUS
  <2>2. \A v \in Workers : given'[v] = given[v]
    OBVIOUS
  <2> QED
    BY <1>1, <2>1, <2>2, ImagesKept DEF OwnerInv
<1>4. PixelsOwned'
  BY <1>1 DEF OwnerInv, PixelsOwned, Held
<1>5. AdaptorsOwned'
  BY <1>1 DEF OwnerInv, AdaptorsOwned, Held
<1>6. StreamsOwned'
  BY <1>1 DEF OwnerInv, StreamsOwned, Held
<1>7. TiffsOwned'
  BY <1>1 DEF OwnerInv, TiffsOwned, Open
<1> QED
  BY <1>2, <1>3, <1>4, <1>5, <1>6, <1>7 DEF OwnerInv

LEMMA FinalizeOwners ==
  ASSUME MaxDecodes <= 1, IInv, FreshInv, OwnerInv, NEW o \in Objects, Finalize(o)
  PROVE  FreshInv' /\ OwnerInv'
<1> USE DEF IInv, Finalize, At, Goto, javaVars, imageVars, streamVars, localVars
<1>1. \A p \in Objects : Live(p)' = Live(p)
  BY DEF Live
<1>2. FreshInv'
  BY <1>1 DEF FreshInv, Empty, Decoding
<1>3. ImagesOwned'
  BY <1>1 DEF OwnerInv, ImagesOwned
<1>4. PixelsOwned'
  BY <1>1 DEF OwnerInv, PixelsOwned, Held
<1>5. AdaptorsOwned'
  BY <1>1 DEF OwnerInv, AdaptorsOwned, Held
<1>6. StreamsOwned'
  BY <1>1 DEF OwnerInv, StreamsOwned, Held
<1>7. TiffsOwned'
  BY <1>1 DEF OwnerInv, TiffsOwned, Open
<1> QED
  BY <1>2, <1>3, <1>4, <1>5, <1>6, <1>7 DEF OwnerInv

LEMMA DecodeOwners ==
  ASSUME MaxDecodes <= 1, IInv, FreshInv, OwnerInv, NEW w \in Workers,
         NEW o \in Objects, NEW first \in {"TIFFOpen", "newAdaptor"},
         Decode(w, o, first)
  PROVE  FreshInv' /\ OwnerInv'
<1> USE DEF IInv, Decode, Ready, At, Goto, javaVars, imageVars, streamVars, localVars
<1>1. \A p \in Objects : Live(p)' = Live(p)
  BY DEF Live
<1>2. FreshInv'
  <2>1. \A v \in Workers : pc'[v] = IF v = w THEN first ELSE pc[v]
    BY DEF Types, WorkerOK
  <2>2. \A v \in Workers : /\ thiz'[v] = IF v = w THEN o ELSE thiz[v]
                           /\ image'[v] = IF v = w THEN mNativeContext[o] ELSE image[v]
    BY DEF Types, WorkerOK
  <2>3. decodes[o] = 0 /\ \A p \in Objects : decodes'[p] = IF p = o THEN 1 ELSE decodes[p]
    BY LifeAssumption DEF Types, JavaOK
  <2>4. Live(o)
    <3>1. \A v \in Workers : At(v, "store") => thiz[v] # o
      BY DEF CallInv, Busy, Holds
    <3> QED
      BY <3>1 DEF Live
  <2>5. Empty(mNativeContext[o])
    BY <2>3, <2>4 DEF FreshInv
  <2>6. \A v \in Workers : pc[v] \in Decoding => decodes'[thiz[v]] > 0
    BY <2>3 DEF FreshInv
  <2>7. \A b : Empty(b)' = Empty(b)
    BY DEF Empty
  <2>8. \A v \in Workers : pc'[v] \in Decoding => decodes'[thiz'[v]] > 0
    BY <2>1, <2>3, <2>6, <2>2
  <2>9. \A p \in Objects : Live(p)' /\ decodes'[p] = 0 => Empty(mNativeContext[p])
    BY <1>1, <2>3 DEF FreshInv
  <2> QED
    BY <2>1, <2>5, <2>2, <2>7, <2>8, <2>9 DEF FreshInv
<1>3. ImagesOwned'
  BY <1>1 DEF OwnerInv, ImagesOwned
<1>4. PixelsOwned'
  BY <1>1 DEF OwnerInv, PixelsOwned, Held
<1>5. AdaptorsOwned'
  BY <1>1 DEF OwnerInv, AdaptorsOwned, Held
<1>6. StreamsOwned'
  BY <1>1 DEF OwnerInv, StreamsOwned, Held
<1>7. TiffsOwned'
  <2>1. \A x \in Addr : heap'[x] = "tiff" /\ clientdata[x] = NULL => heap[x] = "tiff"
    OBVIOUS
  <2>2. ~Open(w)
    BY DEF Open
  <2> QED
    BY <2>1, <2>2, TiffsKept DEF OwnerInv, Types, WorkerOK
<1> QED
  BY <1>2, <1>3, <1>4, <1>5, <1>6, <1>7 DEF OwnerInv

LEMMA TIFFOpenOwners ==
  ASSUME MaxDecodes <= 1, IInv, FreshInv, OwnerInv, NEW w \in Workers, TIFFOpen(w)
  PROVE  FreshInv' /\ OwnerInv'
<1> USE DEF IInv, TIFFOpen, At, Goto, Unused, Holding, javaVars, imageVars, streamVars,
            localVars
<1>1. Works(w)
  BY DEF Works, Decoding
<1>2. \A p \in Objects : Live(p)' = Live(p)
  <2>1. \A b \in Addr : heap[b] = "image" => heap'[b] = "image"
    BY <1>1
  <2>2. PICK step \in Deleting \cup Decoding : pc' = [pc EXCEPT ![w] = step]
    BY DEF Decoding
  <2> QED
    BY <1>1, <2>1, <2>2, QuietRoots
<1>3. FreshInv'
  BY <1>1, <1>2 DEF FreshInv, Empty, Works, Deleting
<1>4. ImagesOwned'
  BY <1>1, <1>2 DEF OwnerInv, ImagesOwned
<1>5. PixelsOwned'
  BY <1>1, <1>2 DEF OwnerInv, PixelsOwned, Held
<1>6. AdaptorsOwned'
  BY <1>1, <1>2 DEF OwnerInv, AdaptorsOwned, Held
<1>7. StreamsOwned'
  BY <1>1, <1>2 DEF OwnerInv, StreamsOwned, Held
<1>8. TiffsOwned'
  BY <1>1, <1>2 DEF Types, WorkerOK, OwnerInv, TiffsOwned, Open
<1> QED
  BY <1>3, <1>4, <1>5, <1>6, <1>7, <1>8 DEF OwnerInv

LEMMA OpenFailsOwners ==
  ASSUME MaxDecodes <= 1, IInv, FreshInv, OwnerInv, NEW w \in Workers, OpenFails(w)
  PROVE  FreshInv' /\ OwnerInv'
<1> USE DEF IInv, OpenFails, At, Goto, Return, javaVars, imageVars, streamVars, localVars
<1>1. Works(w)
  BY DEF Works, Decoding
<1>2. \A p \in Objects : Live(p)' = Live(p)
  BY <1>1, ReturnRoots
<1>3. FreshInv'
  BY <1>1, <1>2 DEF Types, WorkerOK, FreshInv, Empty, Decoding
<1>4. ImagesOwned'
  BY <1>1, <1>2 DEF OwnerInv, ImagesOwned, GivenInv, RootInv
<1>5. PixelsOwned'
  BY <1>1, <1>2 DEF OwnerInv, PixelsOwned, Held
<1>6. AdaptorsOwned'
  BY <1>1, <1>2 DEF OwnerInv, AdaptorsOwned, Held
<1>7. StreamsOwned'
  BY <1>1, <1>2 DEF OwnerInv, StreamsOwned, Held
<1>8. TiffsOwned'
  BY <1>1, <1>2 DEF OwnerInv, TiffsOwned, Open
<1> QED
  BY <1>3, <1>4, <1>5, <1>6, <1>7, <1>8 DEF OwnerInv

LEMMA NewAdaptorOwners ==
  ASSUME MaxDecodes <= 1, IInv, FreshInv, OwnerInv, NEW w \in Workers, NewAdaptor(w)
  PROVE  FreshInv' /\ OwnerInv'
<1> USE DEF IInv, NewAdaptor, At, Goto, Unused, Holding, LendTo, javaVars, imageVars,
            streamVars, localVars
<1>1. Works(w)
  BY DEF Works, Decoding
<1>2. \A p \in Objects : Live(p)' = Live(p)
  <2>1. \A b \in Addr : heap[b] = "image" => heap'[b] = "image"
    BY <1>1
  <2>2. PICK step \in Deleting \cup Decoding : pc' = [pc EXCEPT ![w] = step]
    BY DEF Decoding
  <2> QED
    BY <1>1, <2>1, <2>2, QuietRoots
<1>3. FreshInv'
  BY <1>1, <1>2, OwnImage
     DEF Types, WorkerOK, FreshInv, Empty, RootInv, GivenInv, Works, Decoding
<1>4. ImagesOwned'
  BY <1>1, <1>2 DEF OwnerInv, ImagesOwned
<1>5. PixelsOwned'
  BY <1>1, <1>2 DEF OwnerInv, PixelsOwned, Held
<1>6. AdaptorsOwned'
  BY <1>1, <1>2, Names, OwnImage
     DEF Types, HeapOK, OwnerInv, AdaptorsOwned, Held, FreshInv, Empty
<1>7. StreamsOwned'
  BY <1>1, <1>2 DEF OwnerInv, StreamsOwned, Held
<1>8. TiffsOwned'
  <2>1. \A x \in Addr : heap'[x] = "tiff" /\ clientdata[x] = NULL => heap[x] = "tiff"
    BY <1>1
  <2>2. ~Open(w)
    BY DEF Open
  <2> QED
    BY <2>1, <2>2, TiffsKept DEF OwnerInv, Types, WorkerOK
<1> QED
  BY <1>3, <1>4, <1>5, <1>6, <1>7, <1>8 DEF OwnerInv

LEMMA NewStreamOwners ==
  ASSUME MaxDecodes <= 1, IInv, FreshInv, OwnerInv, NEW w \in Workers, NewStream(w)
  PROVE  FreshInv' /\ OwnerInv'
<1> USE DEF IInv, NewStream, At, Goto, Unused, Holding, javaVars, imageVars, streamVars,
            localVars
<1>1. Works(w)
  BY DEF Works, Decoding
<1>2. \A p \in Objects : Live(p)' = Live(p)
  <2>1. \A b \in Addr : heap[b] = "image" => heap'[b] = "image"
    BY <1>1
  <2>2. PICK step \in Deleting \cup Decoding : pc' = [pc EXCEPT ![w] = step]
    BY DEF Decoding
  <2> QED
    BY <1>1, <2>1, <2>2, QuietRoots
<1>3. FreshInv'
  BY <1>1, <1>2, OwnImage
     DEF Types, WorkerOK, FreshInv, Empty, RootInv, GivenInv, Works, Decoding
<1>4. ImagesOwned'
  BY <1>1, <1>2 DEF OwnerInv, ImagesOwned
<1>5. PixelsOwned'
  BY <1>1, <1>2 DEF OwnerInv, PixelsOwned, Held
<1>6. AdaptorsOwned'
  BY <1>1, <1>2 DEF OwnerInv, AdaptorsOwned, Held
<1>7. StreamsOwned'
  BY <1>1, <1>2, Names, OwnImage DEF Types, HeapOK, OwnerInv, StreamsOwned, Held, FreshInv
<1>8. TiffsOwned'
  <2>1. \A x \in Addr : heap'[x] = "tiff" /\ clientdata[x] = NULL => heap[x] = "tiff"
    BY <1>1
  <2>2. ~Open(w)
    BY DEF Open
  <2> QED
    BY <2>1, <2>2, TiffsKept DEF OwnerInv, Types, WorkerOK
<1> QED
  BY <1>3, <1>4, <1>5, <1>6, <1>7, <1>8 DEF OwnerInv

LEMMA MakeFileStreamOpensOwners ==
  ASSUME MaxDecodes <= 1, IInv, FreshInv, OwnerInv, NEW w \in Workers,
         At(w, "makeFileStream"),
         m_inStream' = [m_inStream EXCEPT ![tiffInputStream[image[w]]] =
                                            javaInputStreamAdaptor[image[w]]],
         UNCHANGED <<javaVars, imageVars, picture>>, NEW a \in Addr, Unused(a),
         Holding(a, "tiff"),
         clientdata' = [clientdata EXCEPT ![a] = tiffInputStream[image[w]]],
         m_tif' = [m_tif EXCEPT ![tiffInputStream[image[w]]] = a],
         tif' = [tif EXCEPT ![w] = a],
         Goto(w, "malloc"), UNCHANGED <<fEnv, thiz, image, given, file>>
  PROVE  FreshInv' /\ OwnerInv'
<1> USE DEF IInv, At, Goto, Unused, Holding, javaVars, imageVars, streamVars, localVars
<1>1. Works(w)
  BY DEF Works, Decoding
<1>2. \A p \in Objects : Live(p)' = Live(p)
  <2>1. \A b \in Addr : heap[b] = "image" => heap'[b] = "image"
    BY <1>1
  <2>2. PICK step \in Deleting \cup Decoding : pc' = [pc EXCEPT ![w] = step]
    BY DEF Decoding
  <2> QED
    BY <1>1, <2>1, <2>2, QuietRoots
<1>3. FreshInv'
  BY <1>1, <1>2 DEF FreshInv, Empty, Works, Deleting
<1>4. ImagesOwned'
  BY <1>1, <1>2 DEF OwnerInv, ImagesOwned
<1>5. PixelsOwned'
  BY <1>1, <1>2 DEF OwnerInv, PixelsOwned, Held
<1>6. AdaptorsOwned'
  BY <1>1, <1>2 DEF OwnerInv, AdaptorsOwned, Held
<1>7. StreamsOwned'
  BY <1>1, <1>2 DEF OwnerInv, StreamsOwned, Held
<1>8. TiffsOwned'
  <2>1. tiffInputStream[image[w]] # NULL
    BY DEF TiffInv
  <2>2. \A x \in Addr : heap'[x] = "tiff" /\ clientdata'[x] = NULL =>
                          heap[x] = "tiff" /\ clientdata[x] = NULL
    BY <2>1 DEF Types, StreamOK
  <2>3. \A v \in Workers : Open(v) => v # w /\ pc'[v] = pc[v] /\ tif'[v] = tif[v]
    BY DEF Open
  <2> QED
    BY <2>2, <2>3 DEF OwnerInv, TiffsOwned, Open
<1> QED
  BY <1>3, <1>4, <1>5, <1>6, <1>7, <1>8 DEF OwnerInv

LEMMA MakeFileStreamFailsOwners ==
  ASSUME MaxDecodes <= 1, IInv, FreshInv, OwnerInv, NEW w \in Workers, MakeFileStream(w),
         Return(w), UNCHANGED <<heap, clientdata, m_tif>>
  PROVE  FreshInv' /\ OwnerInv'
<1> USE DEF IInv, MakeFileStream, At, Goto, Return, Unused, Holding, javaVars, imageVars,
            streamVars, localVars
<1>1. Works(w)
  BY DEF Works, Decoding
<1>2. \A p \in Objects : Live(p)' = Live(p)
  BY <1>1, ReturnRoots
<1>3. FreshInv'
  BY <1>1, <1>2 DEF Types, WorkerOK, FreshInv, Empty, Decoding
<1>4. ImagesOwned'
  <2>1. \A x \in Addr : heap'[x] = "image" => heap[x] = "image"
    OBVIOUS
  <2>2. \A v \in Workers : given'[v] = given[v]
    BY DEF GivenInv
  <2> QED
    BY <1>2, <2>1, <2>2, ImagesKept DEF OwnerInv
<1>5. PixelsOwned'
  BY <1>1, <1>2 DEF OwnerInv, PixelsOwned, Held
<1>6. AdaptorsOwned'
  BY <1>1, <1>2 DEF OwnerInv, AdaptorsOwned, Held
<1>7. StreamsOwned'
  BY <1>1, <1>2 DEF OwnerInv, StreamsOwned, Held
<1>8. TiffsOwned'
  BY <1>1, <1>2 DEF OwnerInv, TiffsOwned, Open
<1> QED
  BY <1>3, <1>4, <1>5, <1>6, <1>7, <1>8 DEF OwnerInv

LEMMA MallocSucceedsOwners ==
  ASSUME MaxDecodes <= 1, IInv, FreshInv, OwnerInv, NEW w \in Workers, Malloc(w),
         NEW a \in Addr, Unused(a), Holding(a, "pixels"),
         buffer' = [buffer EXCEPT ![image[w]] = a],
         picture' = [picture EXCEPT ![a] = None],
         Goto(w, "readRGBA")
  PROVE  FreshInv' /\ OwnerInv'
<1> USE DEF IInv, Malloc, At, Goto, Unused, Holding, javaVars, imageVars, streamVars,
            localVars
<1>1. Works(w)
  BY DEF Works, Decoding
<1>2. \A p \in Objects : Live(p)' = Live(p)
  <2>1. \A b \in Addr : heap[b] = "image" => heap'[b] = "image"
    BY <1>1
  <2>2. PICK step \in Deleting \cup Decoding : pc' = [pc EXCEPT ![w] = step]
    BY DEF Decoding
  <2> QED
    BY <1>1, <2>1, <2>2, QuietRoots
<1>3. FreshInv'
  BY <1>1, <1>2, OwnImage
     DEF Types, WorkerOK, FreshInv, Empty, RootInv, GivenInv, Busy, Works, Decoding
<1>4. ImagesOwned'
  <2>1. \A x \in Addr : heap'[x] = "image" => heap[x] = "image"
    OBVIOUS
  <2>2. \A v \in Workers : given'[v] = given[v]
    OBVIOUS
  <2> QED
    BY <1>2, <2>1, <2>2, ImagesKept DEF OwnerInv
<1>5. PixelsOwned'
  BY <1>1, <1>2, Names, OwnImage DEF Types, HeapOK, OwnerInv, PixelsOwned, Held, FreshInv
<1>6. AdaptorsOwned'
  BY <1>1, <1>2 DEF OwnerInv, AdaptorsOwned, Held
<1>7. StreamsOwned'
  BY <1>1, <1>2 DEF OwnerInv, StreamsOwned, Held
<1>8. TiffsOwned'
  BY <1>1, <1>2 DEF OwnerInv, TiffsOwned, Open
<1> QED
  BY <1>3, <1>4, <1>5, <1>6, <1>7, <1>8 DEF OwnerInv

LEMMA MallocFailsOwners ==
  ASSUME MaxDecodes <= 1, IInv, FreshInv, OwnerInv, NEW w \in Workers, Malloc(w),
         buffer' = [buffer EXCEPT ![image[w]] = NULL],
         Goto(w, "decoded"), UNCHANGED <<heap, picture>>
  PROVE  FreshInv' /\ OwnerInv'
<1> USE DEF IInv, Malloc, At, Goto, Unused, Holding, javaVars, imageVars, streamVars,
            localVars
<1>1. Works(w)
  BY DEF Works, Decoding
<1>2. \A p \in Objects : Live(p)' = Live(p)
  <2>1. \A b \in Addr : heap[b] = "image" => heap'[b] = "image"
    BY <1>1
  <2>2. PICK step \in Deleting \cup Decoding : pc' = [pc EXCEPT ![w] = step]
    BY DEF Decoding
  <2> QED
    BY <1>1, <2>1, <2>2, QuietRoots
<1>3. FreshInv'
  BY <1>1, <1>2 DEF FreshInv, Empty, Works, Deleting
<1>4. ImagesOwned'
  BY <1>1, <1>2 DEF OwnerInv, ImagesOwned
<1>5. PixelsOwned'
  BY <1>1, <1>2 DEF OwnerInv, PixelsOwned, Held, FreshInv
<1>6. AdaptorsOwned'
  BY <1>1, <1>2 DEF OwnerInv, AdaptorsOwned, Held
<1>7. StreamsOwned'
  BY <1>1, <1>2 DEF OwnerInv, StreamsOwned, Held
<1>8. TiffsOwned'
  BY <1>1, <1>2 DEF OwnerInv, TiffsOwned, Open
<1> QED
  BY <1>3, <1>4, <1>5, <1>6, <1>7, <1>8 DEF OwnerInv

LEMMA ReadRGBAOwners ==
  ASSUME MaxDecodes <= 1, IInv, FreshInv, OwnerInv, NEW w \in Workers, ReadRGBA(w)
  PROVE  FreshInv' /\ OwnerInv'
<1> USE DEF IInv, ReadRGBA, At, Goto, javaVars, imageVars, streamVars, localVars
<1>1. Works(w)
  BY DEF Works, Decoding
<1>2. \A p \in Objects : Live(p)' = Live(p)
  <2>1. \A b \in Addr : heap[b] = "image" => heap'[b] = "image"
    BY <1>1
  <2>2. PICK step \in Deleting \cup Decoding : pc' = [pc EXCEPT ![w] = step]
    BY DEF Decoding
  <2> QED
    BY <1>1, <2>1, <2>2, QuietRoots
<1>3. FreshInv'
  BY <1>1, <1>2 DEF FreshInv, Empty, Works, Deleting
<1>4. ImagesOwned'
  BY <1>1, <1>2 DEF OwnerInv, ImagesOwned
<1>5. PixelsOwned'
  BY <1>1, <1>2 DEF OwnerInv, PixelsOwned, Held
<1>6. AdaptorsOwned'
  BY <1>1, <1>2 DEF OwnerInv, AdaptorsOwned, Held
<1>7. StreamsOwned'
  BY <1>1, <1>2 DEF OwnerInv, StreamsOwned, Held
<1>8. TiffsOwned'
  BY <1>1, <1>2 DEF OwnerInv, TiffsOwned, Open
<1> QED
  BY <1>3, <1>4, <1>5, <1>6, <1>7, <1>8 DEF OwnerInv

LEMMA ReadRGBAFailsOwners ==
  ASSUME MaxDecodes <= 1, IInv, FreshInv, OwnerInv, NEW w \in Workers, ReadRGBAFails(w)
  PROVE  FreshInv' /\ OwnerInv'
<1> USE DEF IInv, ReadRGBAFails, At, Goto, Freed, javaVars, imageVars, streamVars,
            localVars
<1>1. Works(w)
  BY DEF Works, Decoding
<1>2. \A p \in Objects : Live(p)' = Live(p)
  <2>1. \A b \in Addr : heap[b] = "image" => heap'[b] = "image"
    BY <1>1, Names, OwnImage DEF FieldInv, Points
  <2>2. PICK step \in Deleting \cup Decoding : pc' = [pc EXCEPT ![w] = step]
    BY DEF Decoding
  <2> QED
    BY <1>1, <2>1, <2>2, QuietRoots
<1>3. FreshInv'
  BY <1>1, <1>2 DEF FreshInv, Empty, Works, Deleting
<1>4. ImagesOwned'
  BY <1>1, <1>2 DEF OwnerInv, ImagesOwned
<1>5. PixelsOwned'
  BY <1>1, <1>2 DEF OwnerInv, PixelsOwned, Held
<1>6. AdaptorsOwned'
  BY <1>1, <1>2 DEF OwnerInv, AdaptorsOwned, Held
<1>7. StreamsOwned'
  BY <1>1, <1>2 DEF OwnerInv, StreamsOwned, Held
<1>8. TiffsOwned'
  BY <1>1, <1>2 DEF OwnerInv, TiffsOwned, Open
<1> QED
  BY <1>3, <1>4, <1>5, <1>6, <1>7, <1>8 DEF OwnerInv

LEMMA DecodedOwners ==
  ASSUME MaxDecodes <= 1, IInv, FreshInv, OwnerInv, NEW w \in Workers, Decoded(w)
  PROVE  FreshInv' /\ OwnerInv'
<1> USE DEF IInv, Decoded, At, Goto, Freed, javaVars, imageVars, streamVars, localVars
<1>1. Works(w)
  BY DEF Works, Decoding
<1>2. \A p \in Objects : Live(p)' = Live(p)
  <2>1. \A b \in Addr : heap[b] = "image" => heap'[b] = "image"
    BY <1>1 DEF TiffInv, Open
  <2>2. PICK step \in Deleting \cup Decoding : pc' = [pc EXCEPT ![w] = step]
    BY DEF Decoding
  <2> QED
    BY <1>1, <2>1, <2>2, QuietRoots
<1>3. FreshInv'
  BY <1>1, <1>2 DEF FreshInv, Empty, Works, Deleting
<1>4. ImagesOwned'
  BY <1>1, <1>2 DEF OwnerInv, ImagesOwned
<1>5. PixelsOwned'
  BY <1>1, <1>2 DEF OwnerInv, PixelsOwned, Held
<1>6. AdaptorsOwned'
  BY <1>1, <1>2 DEF OwnerInv, AdaptorsOwned, Held
<1>7. StreamsOwned'
  BY <1>1, <1>2 DEF OwnerInv, StreamsOwned, Held
<1>8. TiffsOwned'
  BY <1>1, <1>2 DEF OwnerInv, TiffsOwned, Open
<1> QED
  BY <1>3, <1>4, <1>5, <1>6, <1>7, <1>8 DEF OwnerInv

LEMMA CopyOwners ==
  ASSUME MaxDecodes <= 1, IInv, FreshInv, OwnerInv, NEW w \in Workers, Copy(w)
  PROVE  FreshInv' /\ OwnerInv'
<1> USE DEF IInv, Copy, At, Goto, Return, javaVars, imageVars, streamVars, localVars
<1>1. Works(w)
  BY DEF Works, Decoding
<1>2. \A p \in Objects : Live(p)' = Live(p)
  BY <1>1, ReturnRoots
<1>3. FreshInv'
  BY <1>1, <1>2 DEF Types, WorkerOK, FreshInv, Empty, Decoding
<1>4. ImagesOwned'
  BY <1>1, <1>2 DEF OwnerInv, ImagesOwned, GivenInv, RootInv
<1>5. PixelsOwned'
  BY <1>1, <1>2 DEF OwnerInv, PixelsOwned, Held
<1>6. AdaptorsOwned'
  BY <1>1, <1>2 DEF OwnerInv, AdaptorsOwned, Held
<1>7. StreamsOwned'
  BY <1>1, <1>2 DEF OwnerInv, StreamsOwned, Held
<1>8. TiffsOwned'
  BY <1>1, <1>2 DEF OwnerInv, TiffsOwned, Open
<1> QED
  BY <1>3, <1>4, <1>5, <1>6, <1>7, <1>8 DEF OwnerInv

LEMMA NextOwners ==
  ASSUME MaxDecodes <= 1, IInv, FreshInv, OwnerInv, [Next]_vars
  PROVE  FreshInv' /\ OwnerInv'
<1>1. ASSUME NEW w \in Workers, NEW o \in Objects,
             \/ Construct(w, o) \/ Release(w, o) \/ Forget(w, o)
             \/ Decode(w, o, "TIFFOpen") \/ Decode(w, o, "newAdaptor")
      PROVE  FreshInv' /\ OwnerInv'
  BY <1>1, ConstructOwners, ReleaseOwners, ForgetOwners, DecodeOwners
<1>2. ASSUME NEW w \in Workers,
             \/ NewTiffImage(w) \/ NewFails(w) \/ ReadOld(w) \/ FreeBuffer(w)
             \/ DeleteAdaptor(w) \/ CloseTiff(w) \/ FreeStream(w) \/ DeleteImage(w)
             \/ Store(w)
      PROVE  FreshInv' /\ OwnerInv'
  BY <1>2, NewTiffImageOwners, NewFailsOwners, ReadOldOwners, FreeBufferOwners,
     DeleteAdaptorOwners, CloseTiffOwners, FreeStreamOwners, DeleteImageOwners,
         StoreOwners
<1>3. ASSUME NEW w \in Workers,
             \/ TIFFOpen(w) \/ OpenFails(w) \/ NewAdaptor(w) \/ NewStream(w)
             \/ ReadRGBA(w) \/ ReadRGBAFails(w) \/ Decoded(w) \/ Copy(w)
      PROVE  FreshInv' /\ OwnerInv'
  BY <1>3, TIFFOpenOwners, OpenFailsOwners, NewAdaptorOwners, NewStreamOwners,
     ReadRGBAOwners, ReadRGBAFailsOwners, DecodedOwners, CopyOwners
<1>4. ASSUME NEW w \in Workers, MakeFileStream(w)
      PROVE  FreshInv' /\ OwnerInv'
  <2>1. CASE Return(w) /\ UNCHANGED <<heap, clientdata, m_tif>>
    BY <1>4, <2>1, MakeFileStreamFailsOwners
  <2>2. CASE /\ \E a \in Addr :
                   /\ Unused(a)
                   /\ Holding(a, "tiff")
                   /\ clientdata' = [clientdata EXCEPT ![a] = tiffInputStream[image[w]]]
                   /\ m_tif' = [m_tif EXCEPT ![tiffInputStream[image[w]]] = a]
                   /\ tif' = [tif EXCEPT ![w] = a]
             /\ Goto(w, "malloc")
             /\ UNCHANGED <<fEnv, thiz, image, given, file>>
    BY <1>4, <2>2, MakeFileStreamOpensOwners DEF MakeFileStream
  <2> QED
    BY <1>4, <2>1, <2>2 DEF MakeFileStream
<1>5. ASSUME NEW w \in Workers, Malloc(w)
      PROVE  FreshInv' /\ OwnerInv'
  BY <1>5, MallocSucceedsOwners, MallocFailsOwners DEF Malloc
<1>6. ASSUME NEW o \in Objects, Finalize(o)
      PROVE  FreshInv' /\ OwnerInv'
  BY <1>6, FinalizeOwners
<1>7. CASE UNCHANGED vars
  <2>1. FreshInv'
    BY <1>7 DEF vars, FreshInv, Empty, Live, At
  <2>2. ImagesOwned' /\ TiffsOwned'
    BY <1>7 DEF vars, OwnerInv, ImagesOwned, TiffsOwned, Live, Open, At
  <2>3. PixelsOwned' /\ AdaptorsOwned' /\ StreamsOwned'
    BY <1>7 DEF vars, OwnerInv, PixelsOwned, AdaptorsOwned, StreamsOwned, Held
  <2> QED
    BY <2>1, <2>2, <2>3 DEF OwnerInv
<1> QED
  BY <1>1, <1>2, <1>3, <1>4, <1>5, <1>6, <1>7 DEF Next, Call, Step

-----------------------------------------------------------------------------
\* What the image at an address holds is held by the object or by the call that
\* has the image.
LEMMA RootsHold ==
  ASSUME IInv, OwnerInv, NEW a \in Addr, heap[a] = "image", NEW x, x \in Owned(a)
  PROVE  \/ \E o \in Objects : mNativeContext[o] # NULL /\ x \in Owned(mNativeContext[o])
         \/ \E w \in Workers : ~At(w, "idle") /\ given[w] # NULL /\ x \in Owned(given[w])
BY Names DEF IInv, OwnerInv, ImagesOwned, Live, GivenInv, At

LEMMA NoneOrphaned ==
  ASSUME IInv, OwnerInv
  PROVE  NothingOrphaned
<1> DEFINE Reached(x) ==
      \/ \E o \in Objects : mNativeContext[o] # NULL /\ x \in Owned(mNativeContext[o])
      \/ \E w \in Workers : ~At(w, "idle") /\
           \/ x = tif[w]
           \/ image[w] # NULL /\ x \in Owned(image[w])
           \/ given[w] # NULL /\ x \in Owned(given[w])
<1>1. ASSUME NEW x \in Addr, NEW a \in Addr, heap[a] = "image", x \in Owned(a)
      PROVE  Reached(x)
  BY <1>1, RootsHold
<1>2. ASSUME NEW x \in Addr, heap[x] # "free"
      PROVE  Reached(x)
  <2>1. CASE heap[x] = "image"
    BY <1>1, <2>1, Names DEF Owned
  <2>2. CASE heap[x] = "pixels"
    <3>1. PICK a \in Addr : buffer[a] = x /\ heap[a] = "image"
      BY <2>2, Names DEF IInv, FieldInv, Points, OwnerInv, PixelsOwned, Held
    <3> QED
      BY <1>1, <3>1, Names DEF Owned
  <2>3. CASE heap[x] = "adaptor"
    <3>1. PICK a \in Addr : javaInputStreamAdaptor[a] = x /\ heap[a] = "image"
      BY <2>3, Names DEF IInv, FieldInv, Points, OwnerInv, AdaptorsOwned, Held
    <3> QED
      BY <1>1, <3>1, Names DEF Owned
  <2>4. CASE heap[x] = "stream"
    <3>1. PICK a \in Addr : tiffInputStream[a] = x /\ heap[a] = "image"
      BY <2>4, Names DEF IInv, FieldInv, Points, OwnerInv, StreamsOwned, Held
    <3> QED
      BY <1>1, <3>1, Names DEF Owned
  <2>5. CASE heap[x] = "tiff" /\ clientdata[x] = NULL
    BY <2>5 DEF OwnerInv, TiffsOwned, Open, At
  <2>6. CASE heap[x] = "tiff" /\ clientdata[x] # NULL
    <3>1. /\ clientdata[x] \in Addr
          /\ heap[clientdata[x]] = "stream"
          /\ m_tif[clientdata[x]] = x
      BY <2>6, Names DEF IInv, StreamInv, Types, StreamOK
    <3>2. PICK a \in Addr : tiffInputStream[a] = clientdata[x] /\ heap[a] = "image"
      BY <3>1, Names DEF IInv, FieldInv, Points, OwnerInv, StreamsOwned, Held
    <3> QED
      BY <1>1, <2>6, <3>1, <3>2, Names DEF Owned
  <2> QED
    BY <1>2, <2>1, <2>2, <2>3, <2>4, <2>5, <2>6 DEF IInv, Types, HeapOK
<1> QED
  BY <1>2 DEF NothingOrphaned

\* When no object decodes more than once, every block is held by some object or
\* by a running call, however often objects are released, dropped and finalized
\* and wherever a call fails (TiffImage.cpp:30-50, TiffInputStream.cpp:24-30).
THEOREM OnceNothingOrphaned == MaxDecodes <= 1 => (Spec => []NothingOrphaned)
<1> SUFFICES ASSUME MaxDecodes <= 1 PROVE Spec => []NothingOrphaned
  OBVIOUS
<1>1. Init => IInv /\ FreshInv /\ OwnerInv
  BY InitInv, InitOwners
<1>2. IInv /\ FreshInv /\ OwnerInv /\ [Next]_vars => IInv' /\ FreshInv' /\ OwnerInv'
  BY NextKeeps, NextOwners
<1>3. IInv /\ OwnerInv => NothingOrphaned
  BY NoneOrphaned
<1> QED
  BY <1>1, <1>2, <1>3, PTL DEF Spec
=============================================================================
