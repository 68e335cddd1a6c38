----------------------------- MODULE TiffImage -----------------------------
(***************************************************************************)
(* The life of the native memory behind the Java class TiffImage: the JNI  *)
(* entry points (TiffImage_jni.cpp), the native object they keep in the    *)
(* field mNativeContext (TiffImage.cpp), and the blocks that object owns.  *)
(* A Java object is used by the thread that created it; once unreachable   *)
(* it is finalized on the finalizer's own thread.  Between two steps of a  *)
(* native call any other worker may allocate, and so be given an address   *)
(* that was just freed.                                                    *)
(***************************************************************************)
EXTENDS Integers

CONSTANTS Objects,     \* Java TiffImage objects
          Threads,     \* threads of the application
          Finalizer,   \* the thread that runs finalize()
          None,        \* no object, no thread, no file
          Files,       \* the pictures there are to decode
          MaxAddr,     \* bound: addresses of the native heap
          MaxDecodes,  \* bound: decodes of one object
          FirstFit     \* bound: TRUE, a block gets the lowest free address

Workers == Threads \cup {Finalizer}

ASSUME LifeAssumption ==
  /\ Finalizer \notin Threads
  /\ None \notin Workers \cup Objects \cup Files
  /\ MaxAddr \in Nat
  /\ MaxDecodes \in Nat
  /\ FirstFit \in BOOLEAN

Addr == 1..MaxAddr
NULL == 0
Pointer == Addr \cup {NULL}

VARIABLES
  \* each Java object
  java,            \* unborn, constructing, reachable, garbage, finalized
  user,            \* the thread that created it
  mNativeContext,
  decodes,         \* decodes asked of it so far
  \* the native heap: the kind of block at each address, and its fields
  heap,
  buffer, javaInputStreamAdaptor, tiffInputStream, dims,  \* of a TiffImage
  picture,                                          \* of a pixel buffer
  m_tif, m_inStream,                                \* of a TiffInputStream
  fEnv,            \* of an adaptor: the worker whose running call lent it its
                   \* JNIEnv and local references; None once that call returned
  clientdata,      \* of a TIFF: the stream it is opened on, NULL for a path
  \* each worker
  pc,
  thiz,            \* the Java object of its call
  image,           \* tiffImage, and old in setTiffImage
  given,           \* the context setTiffImage is to store
  tif,             \* of TiffImage::decode
  file             \* what it was asked to decode

javaVars == <<java, user, mNativeContext, decodes>>
imageVars == <<buffer, javaInputStreamAdaptor, tiffInputStream, dims>>
streamVars == <<m_tif, m_inStream>>
localVars == <<thiz, image, given, tif, file>>
vars == <<java, user, mNativeContext, decodes, heap, buffer, javaInputStreamAdaptor,
          tiffInputStream, dims, picture, m_tif, m_inStream, fEnv, clientdata, pc,
          thiz, image, given, tif, file>>

Init == /\ java = [o \in Objects |-> "unborn"]
        /\ user = [o \in Objects |-> None]
        /\ mNativeContext = [o \in Objects |-> NULL]
        /\ decodes = [o \in Objects |-> 0]
        /\ heap = [a \in Addr |-> "free"]
        /\ buffer = [a \in Addr |-> NULL]
        /\ javaInputStreamAdaptor = [a \in Addr |-> NULL]
        /\ tiffInputStream = [a \in Addr |-> NULL]
        /\ dims = [a \in Addr |-> None]
        /\ picture = [a \in Addr |-> None]
        /\ m_tif = [a \in Addr |-> NULL]
        /\ m_inStream = [a \in Addr |-> NULL]
        /\ fEnv = [a \in Addr |-> None]
        /\ clientdata = [a \in Addr |-> NULL]
        /\ pc = [w \in Workers |-> "idle"]
        /\ thiz = [w \in Workers |-> None]
        /\ image = [w \in Workers |-> NULL]
        /\ given = [w \in Workers |-> NULL]
        /\ tif = [w \in Workers |-> NULL]
        /\ file = [w \in Workers |-> None]

(***************************************************************************)
(* The allocator.  Any free address may be returned; what a freed block    *)
(* held is not kept, and MemorySafe says that nobody asks.                 *)
(***************************************************************************)
Unused(a) == /\ heap[a] = "free"
             /\ FirstFit => \A b \in Addr : heap[b] = "free" => a <= b

Holding(a, kind) == heap' = [heap EXCEPT ![a] = kind]

\* free(NULL) does nothing.
Freed(a) == heap' = [b \in Addr |-> IF b = a THEN "free" ELSE heap[b]]

(***************************************************************************)
(* A worker's call goes from step to step and returns; with its return the *)
(* JNIEnv and the local references it lent are no longer good.             *)
(***************************************************************************)
At(w, step) == pc[w] = step
Goto(w, step) == pc' = [pc EXCEPT ![w] = step]

Return(w) == /\ Goto(w, "idle")
             /\ thiz' = [thiz EXCEPT ![w] = None]
             /\ image' = [image EXCEPT ![w] = NULL]
             /\ given' = [given EXCEPT ![w] = NULL]
             /\ tif' = [tif EXCEPT ![w] = NULL]
             /\ file' = [file EXCEPT ![w] = None]
             /\ fEnv' = [a \in Addr |-> IF fEnv[a] = w THEN None ELSE fEnv[a]]

\* The thread that made the object calls a method of it.
Ready(w, o) == At(w, "idle") /\ java[o] = "reachable" /\ user[o] = w

(***************************************************************************)
(* new TiffImage(): nativeSetup.                                           *)
(***************************************************************************)
Construct(w, o) ==
  /\ At(w, "idle")
  /\ w \in Threads
  /\ java[o] = "unborn"
  /\ java' = [java EXCEPT ![o] = "constructing"]
  /\ user' = [user EXCEPT ![o] = w]
  /\ thiz' = [thiz EXCEPT ![w] = o]
  /\ Goto(w, "new")
  /\ UNCHANGED <<mNativeContext, decodes, heap, imageVars, picture, streamVars, fEnv,
                 clientdata, image, given, tif, file>>

NewTiffImage(w) ==
  /\ At(w, "new")
  /\ \E a \in Addr :
        /\ Unused(a)
        /\ Holding(a, "image")
        /\ buffer' = [buffer EXCEPT ![a] = NULL]
        /\ javaInputStreamAdaptor' = [javaInputStreamAdaptor EXCEPT ![a] = NULL]
        /\ tiffInputStream' = [tiffInputStream EXCEPT ![a] = NULL]
        /\ dims' = [dims EXCEPT ![a] = None]
        /\ given' = [given EXCEPT ![w] = a]
  /\ Goto(w, "readOld")
  /\ UNCHANGED <<javaVars, picture, streamVars, fEnv, clientdata, thiz, image, tif, file>>

\* The constructor throws: the object is never handed out, only finalized.
NewFails(w) ==
  /\ At(w, "new")
  /\ java' = [java EXCEPT ![thiz[w]] = "garbage"]
  /\ Return(w)
  /\ UNCHANGED <<user, mNativeContext, decodes, heap, imageVars, picture, streamVars, clientdata>>

(***************************************************************************)
(* setTiffImage: delete the object of before, then store the new context.  *)
(* ~TiffImage frees the pixels, the adaptor and the stream, in that order; *)
(* ~TiffInputStream closes the TIFF, and TIFFClose ends with a call of the *)
(* close procedure, which looks at m_inStream and does not follow it.      *)
(***************************************************************************)
\* mutant: the test for NULL is left out
DeleteAlways(old) == TRUE
MustDelete(old) == old # NULL

ReadOld(w) ==
  /\ At(w, "readOld")
  /\ image' = [image EXCEPT ![w] = mNativeContext[thiz[w]]]
  /\ Goto(w, IF MustDelete(mNativeContext[thiz[w]]) THEN "freeBuffer" ELSE "store")
  /\ UNCHANGED <<javaVars, heap, imageVars, picture, streamVars, fEnv, clientdata,
                 thiz, given, tif, file>>

FreeBuffer(w) ==
  /\ At(w, "freeBuffer")
  /\ Freed(buffer[image[w]])
  /\ buffer' = [buffer EXCEPT ![image[w]] = NULL]
  /\ Goto(w, "deleteAdaptor")
  /\ UNCHANGED <<javaVars, javaInputStreamAdaptor, tiffInputStream, dims, picture,
                 streamVars, fEnv, clientdata, localVars>>

DeleteAdaptor(w) ==
  /\ At(w, "deleteAdaptor")
  /\ Freed(javaInputStreamAdaptor[image[w]])
  /\ javaInputStreamAdaptor' = [javaInputStreamAdaptor EXCEPT ![image[w]] = NULL]
  /\ Goto(w, IF tiffInputStream[image[w]] # NULL THEN "closeTiff" ELSE "deleteImage")
  /\ UNCHANGED <<javaVars, buffer, tiffInputStream, dims, picture, streamVars, fEnv,
                 clientdata, localVars>>

\* mutant: ~TiffInputStream forgets the handle instead of closing it
CloseForgets(w) ==
  /\ At(w, "closeTiff")
  /\ m_tif' = [m_tif EXCEPT ![tiffInputStream[image[w]]] = NULL]
  /\ Goto(w, "freeStream")
  /\ UNCHANGED <<javaVars, heap, imageVars, picture, m_inStream, fEnv, clientdata, localVars>>

CloseTiff(w) ==
  LET stream == tiffInputStream[image[w]]
      handle == m_tif[stream]
  IN  /\ At(w, "closeTiff")
      /\ Freed(handle)
      /\ m_inStream' = [s \in Addr |->
           IF handle # NULL /\ s = clientdata[handle] THEN NULL ELSE m_inStream[s]]
      /\ m_tif' = [m_tif EXCEPT ![stream] = NULL]
      /\ Goto(w, "freeStream")
      /\ UNCHANGED <<javaVars, imageVars, picture, fEnv, clientdata, localVars>>

FreeStream(w) ==
  /\ At(w, "freeStream")
  /\ Freed(tiffInputStream[image[w]])
  /\ tiffInputStream' = [tiffInputStream EXCEPT ![image[w]] = NULL]
  /\ Goto(w, "deleteImage")
  /\ UNCHANGED <<javaVars, buffer, javaInputStreamAdaptor, dims, picture, streamVars, fEnv,
                 clientdata, localVars>>

DeleteImage(w) ==
  /\ At(w, "deleteImage")
  /\ Freed(image[w])
  /\ Goto(w, "store")
  /\ UNCHANGED <<javaVars, imageVars, picture, streamVars, fEnv, clientdata, localVars>>

\* mutant: a release leaves the field as it was
StoredKept(old, new) == IF new = NULL THEN old ELSE new
Stored(old, new) == new

Store(w) ==
  /\ At(w, "store")
  /\ mNativeContext' = [mNativeContext EXCEPT ![thiz[w]] = Stored(@, given[w])]
  /\ java' = [java EXCEPT ![thiz[w]] = IF @ = "constructing" THEN "reachable" ELSE @]
  /\ Return(w)
  /\ UNCHANGED <<user, decodes, heap, imageVars, picture, streamVars, clientdata>>

(***************************************************************************)
(* release(), losing the last reference, and finalize().                   *)
(***************************************************************************)
Release(w, o) ==
  /\ Ready(w, o)
  /\ thiz' = [thiz EXCEPT ![w] = o]
  /\ Goto(w, "readOld")
  /\ UNCHANGED <<javaVars, heap, imageVars, picture, streamVars, fEnv, clientdata,
                 image, given, tif, file>>

Forget(w, o) ==
  /\ Ready(w, o)
  /\ java' = [java EXCEPT ![o] = "garbage"]
  /\ UNCHANGED <<user, mNativeContext, decodes, heap, imageVars, picture, streamVars, fEnv,
                 clientdata, pc, localVars>>

Finalize(o) ==
  /\ At(Finalizer, "idle")
  /\ java[o] = "garbage"
  /\ java' = [java EXCEPT ![o] = "finalized"]
  /\ thiz' = [thiz EXCEPT ![Finalizer] = o]
  /\ Goto(Finalizer, "readOld")
  /\ UNCHANGED <<user, mNativeContext, decodes, heap, imageVars, picture, streamVars, fEnv,
                 clientdata, image, given, tif, file>>

(***************************************************************************)
(* decode.  After a release there is no native object and the call throws  *)
(* IllegalStateException, which changes nothing.                           *)
(***************************************************************************)
Decode(w, o, first) ==
  /\ Ready(w, o)
  /\ mNativeContext[o] # NULL
  /\ decodes[o] < MaxDecodes
  /\ decodes' = [decodes EXCEPT ![o] = @ + 1]
  /\ thiz' = [thiz EXCEPT ![w] = o]
  /\ image' = [image EXCEPT ![w] = mNativeContext[o]]
  /\ \E f \in Files : file' = [file EXCEPT ![w] = f]
  /\ Goto(w, first)
  /\ UNCHANGED <<java, user, mNativeContext, heap, imageVars, picture, streamVars, fEnv,
                 clientdata, given, tif>>

\* decode(path)
TIFFOpen(w) ==
  /\ At(w, "TIFFOpen")
  /\ \E a \in Addr :
        /\ Unused(a)
        /\ Holding(a, "tiff")
        /\ clientdata' = [clientdata EXCEPT ![a] = NULL]
        /\ tif' = [tif EXCEPT ![w] = a]
  /\ Goto(w, "malloc")
  /\ UNCHANGED <<javaVars, imageVars, picture, streamVars, fEnv, thiz, image, given, file>>

\* mutant: the buffer of before is returned when the file does not open
OpenFailsReturnsBuffer(w) ==
  /\ At(w, "TIFFOpen")
  /\ Goto(w, "copy")
  /\ UNCHANGED <<javaVars, heap, imageVars, picture, streamVars, fEnv, clientdata, localVars>>

OpenFails(w) ==
  /\ At(w, "TIFFOpen")
  /\ Return(w)
  /\ UNCHANGED <<javaVars, heap, imageVars, picture, streamVars, clientdata>>

\* decode(is): the adaptor keeps the JNIEnv and the references of this call,
\* and what the two fields pointed to before is overwritten.
LendTo(w, a) == /\ javaInputStreamAdaptor' = [javaInputStreamAdaptor EXCEPT ![image[w]] = a]
                /\ fEnv' = [fEnv EXCEPT ![a] = w]

\* mutant: an adaptor the image already has is used again
KeepAdaptor(w) ==
  /\ At(w, "newAdaptor")
  /\ IF javaInputStreamAdaptor[image[w]] # NULL
     THEN UNCHANGED <<heap, javaInputStreamAdaptor, fEnv>>
     ELSE \E a \in Addr : Unused(a) /\ Holding(a, "adaptor") /\ LendTo(w, a)
  /\ Goto(w, "newStream")
  /\ UNCHANGED <<javaVars, buffer, tiffInputStream, dims, picture, streamVars, clientdata, localVars>>

NewAdaptor(w) ==
  /\ At(w, "newAdaptor")
  /\ \E a \in Addr : Unused(a) /\ Holding(a, "adaptor") /\ LendTo(w, a)
  /\ Goto(w, "newStream")
  /\ UNCHANGED <<javaVars, buffer, tiffInputStream, dims, picture, streamVars, clientdata, localVars>>

NewStream(w) ==
  /\ At(w, "newStream")
  /\ \E a \in Addr :
        /\ Unused(a)
        /\ Holding(a, "stream")
        /\ tiffInputStream' = [tiffInputStream EXCEPT ![image[w]] = a]
        /\ m_tif' = [m_tif EXCEPT ![a] = NULL]
        /\ m_inStream' = [m_inStream EXCEPT ![a] = NULL]
  /\ Goto(w, "makeFileStream")
  /\ UNCHANGED <<javaVars, buffer, javaInputStreamAdaptor, dims, picture, fEnv, clientdata, localVars>>

MakeFileStream(w) ==
  LET stream == tiffInputStream[image[w]]
  IN  /\ At(w, "makeFileStream")
      /\ m_inStream' = [m_inStream EXCEPT ![stream] = javaInputStreamAdaptor[image[w]]]
      /\ \/ /\ \E a \in Addr :
                  /\ Unused(a)
                  /\ Holding(a, "tiff")
                  /\ clientdata' = [clientdata EXCEPT ![a] = stream]
                  /\ m_tif' = [m_tif EXCEPT ![stream] = a]
                  /\ tif' = [tif EXCEPT ![w] = a]
            /\ Goto(w, "malloc")
            /\ UNCHANGED <<fEnv, thiz, image, given, file>>
         \/ Return(w) /\ UNCHANGED <<heap, clientdata, m_tif>>
      /\ UNCHANGED <<javaVars, imageVars, picture>>

\* decode(tif): width, height and bufferSize are those of the file from here on.
Malloc(w) ==
  /\ At(w, "malloc")
  /\ dims' = [dims EXCEPT ![image[w]] = file[w]]
  /\ \/ /\ \E a \in Addr :
              /\ Unused(a)
              /\ Holding(a, "pixels")
              /\ buffer' = [buffer EXCEPT ![image[w]] = a]
              /\ picture' = [picture EXCEPT ![a] = None]
        /\ Goto(w, "readRGBA")
     \/ /\ buffer' = [buffer EXCEPT ![image[w]] = NULL]
        /\ Goto(w, "decoded")
        /\ UNCHANGED <<heap, picture>>
  /\ UNCHANGED <<javaVars, javaInputStreamAdaptor, tiffInputStream, streamVars, fEnv,
                 clientdata, localVars>>

ReadRGBA(w) ==
  /\ At(w, "readRGBA")
  /\ picture' = [picture EXCEPT ![buffer[image[w]]] = file[w]]
  /\ Goto(w, "decoded")
  /\ UNCHANGED <<javaVars, heap, imageVars, streamVars, fEnv, clientdata, localVars>>

ReadRGBAFails(w) ==
  /\ At(w, "readRGBA")
  /\ Freed(buffer[image[w]])
  /\ buffer' = [buffer EXCEPT ![image[w]] = NULL]
  /\ Goto(w, "decoded")
  /\ UNCHANGED <<javaVars, javaInputStreamAdaptor, tiffInputStream, dims, picture,
                 streamVars, fEnv, clientdata, localVars>>

\* A TIFF opened on a path is closed at once, one on a stream stays open.
Decoded(w) ==
  /\ At(w, "decoded")
  /\ IF clientdata[tif[w]] = NULL THEN Freed(tif[w]) ELSE UNCHANGED heap
  /\ Goto(w, "copy")
  /\ UNCHANGED <<javaVars, imageVars, picture, streamVars, fEnv, clientdata, localVars>>

\* The pixels, if there are any, go into a Java array and the call returns.
Copy(w) ==
  /\ At(w, "copy")
  /\ Return(w)
  /\ UNCHANGED <<javaVars, heap, imageVars, picture, streamVars, clientdata>>

Call(w) == \E o \in Objects :
  \/ Construct(w, o) \/ Release(w, o) \/ Forget(w, o)
  \/ Decode(w, o, "TIFFOpen") \/ Decode(w, o, "newAdaptor")

Step(w) ==
  \/ NewTiffImage(w) \/ NewFails(w)
  \/ ReadOld(w) \/ FreeBuffer(w) \/ DeleteAdaptor(w) \/ CloseTiff(w) \/ FreeStream(w)
  \/ DeleteImage(w) \/ Store(w)
  \/ TIFFOpen(w) \/ OpenFails(w) \/ NewAdaptor(w) \/ NewStream(w) \/ MakeFileStream(w)
  \/ Malloc(w) \/ ReadRGBA(w) \/ ReadRGBAFails(w) \/ Decoded(w) \/ Copy(w)

Next == \/ \E w \in Workers : Call(w) \/ Step(w)
        \/ \E o \in Objects : Finalize(o)

Spec == Init /\ [][Next]_vars

-----------------------------------------------------------------------------
Steps == {"idle", "new", "readOld", "freeBuffer", "deleteAdaptor", "closeTiff", "freeStream",
          "deleteImage", "store", "TIFFOpen", "newAdaptor", "newStream", "makeFileStream",
          "malloc", "readRGBA", "decoded", "copy"}

Deleting == {"freeBuffer", "deleteAdaptor", "closeTiff", "freeStream", "deleteImage"}
Decoding == {"TIFFOpen", "newAdaptor", "newStream", "makeFileStream", "malloc", "readRGBA",
             "decoded", "copy"}

\* The values the variables take; a step that works on a native object has one
\* to work on (TiffImage_jni.cpp:24-29, 99-103).
TypeOK ==
  /\ java \in [Objects -> {"unborn", "constructing", "reachable", "garbage", "finalized"}]
  /\ user \in [Objects -> Threads \cup {None}]
  /\ mNativeContext \in [Objects -> Pointer]
  /\ decodes \in [Objects -> 0..MaxDecodes]
  /\ heap \in [Addr -> {"free", "image", "adaptor", "stream", "tiff", "pixels"}]
  /\ buffer \in [Addr -> Pointer]
  /\ javaInputStreamAdaptor \in [Addr -> Pointer]
  /\ tiffInputStream \in [Addr -> Pointer]
  /\ dims \in [Addr -> Files \cup {None}]
  /\ picture \in [Addr -> Files \cup {None}]
  /\ m_tif \in [Addr -> Pointer]
  /\ m_inStream \in [Addr -> Pointer]
  /\ fEnv \in [Addr -> Workers \cup {None}]
  /\ clientdata \in [Addr -> Pointer]
  /\ pc \in [Workers -> Steps]
  /\ thiz \in [Workers -> Objects \cup {None}]
  /\ image \in [Workers -> Pointer]
  /\ given \in [Workers -> Pointer]
  /\ tif \in [Workers -> Pointer]
  /\ file \in [Workers -> Files \cup {None}]
  /\ \A w \in Workers : pc[w] \in Deleting \cup Decoding => image[w] # NULL

\* The blocks the next step of a worker reads, writes or frees, each with the
\* kind of block the code takes it for.
Touches(w) ==
  LET img == image[w]
      stream == tiffInputStream[img]
      one(a, kind) == IF a = NULL THEN {} ELSE {<<a, kind>>}
  IN  CASE At(w, "freeBuffer") -> {<<img, "image">>} \cup one(buffer[img], "pixels")
        [] At(w, "deleteAdaptor") ->
             {<<img, "image">>} \cup one(javaInputStreamAdaptor[img], "adaptor")
        [] At(w, "closeTiff") ->
             {<<img, "image">>, <<stream, "stream">>} \cup one(m_tif[stream], "tiff")
               \cup (IF m_tif[stream] = NULL THEN {}
                     ELSE one(clientdata[m_tif[stream]], "stream"))
        [] At(w, "freeStream") -> {<<img, "image">>, <<stream, "stream">>}
        [] pc[w] \in {"deleteImage", "newAdaptor", "newStream"} -> {<<img, "image">>}
        [] At(w, "makeFileStream") -> {<<img, "image">>, <<stream, "stream">>}
        [] At(w, "malloc") -> {<<img, "image">>, <<tif[w], "tiff">>}
        [] At(w, "readRGBA") ->
             {<<img, "image">>, <<tif[w], "tiff">>, <<buffer[img], "pixels">>}
               \cup one(clientdata[tif[w]], "stream")
        [] At(w, "decoded") -> {<<tif[w], "tiff">>}
        [] At(w, "copy") -> {<<img, "image">>} \cup one(buffer[img], "pixels")
        [] OTHER -> {}

\* No step of any worker reads, writes or frees a block that is not there or is
\* another kind of block by now: release(), a later finalize() and the reuse of
\* addresses by other objects never meet (TiffImage_jni.cpp:22-31,
\* TiffImage.cpp:30-44).
MemorySafe ==
  \A w \in Workers : \A t \in Touches(w) : t[1] \in Addr /\ heap[t[1]] = t[2]

\* The adaptors through which the next step of a worker calls into Java.
CallsJavaBy(w) ==
  CASE At(w, "makeFileStream") -> {javaInputStreamAdaptor[image[w]]}
    [] At(w, "readRGBA") /\ clientdata[tif[w]] # NULL -> {m_inStream[clientdata[tif[w]]]}
    [] OTHER -> {}

\* Java is called only through the JNIEnv and the references of the call that is
\* running, on its own thread: an adaptor outlives its call and is never used
\* again (JavaInputStreamAdaptor.h:27-29, TiffImage.cpp:101-103).
JavaEnvCurrent ==
  \A w \in Workers : \A a \in CallsJavaBy(w) :
    a \in Addr /\ heap[a] = "adaptor" /\ fEnv[a] = w

\* The blocks an image at a holds on to.
Owned(a) ==
  LET stream == tiffInputStream[a]
  IN  ({a, buffer[a], javaInputStreamAdaptor[a], stream}
         \cup (IF stream = NULL THEN {} ELSE {m_tif[stream]})) \ {NULL}

\* Every block is either on its way through a running call or held by the
\* native object of some Java object, so that release() or finalize() frees it.
\* Nothing outlives its owner (TiffImage.cpp:30-50, TiffInputStream.cpp:24-30).
NothingOrphaned ==
  \A a \in Addr : heap[a] # "free" =>
    \/ \E o \in Objects : mNativeContext[o] # NULL /\ a \in Owned(mNativeContext[o])
    \/ \E w \in Workers : ~At(w, "idle") /\
         \/ a = tif[w]
         \/ image[w] # NULL /\ a \in Owned(image[w])
         \/ given[w] # NULL /\ a \in Owned(given[w])

\* The array a decode returns is the picture it was asked for, and getWidth and
\* getHeight, asked next by convertIntToBitmap, speak of the same picture
\* (TiffImage_jni.cpp:117-130, TiffImage.java:84-96).
ReturnsWhatWasAsked ==
  \A w \in Workers : At(w, "copy") /\ buffer[image[w]] # NULL =>
    /\ picture[buffer[image[w]]] = file[w]
    /\ dims[image[w]] = file[w]
=============================================================================
