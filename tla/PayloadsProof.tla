--------------------------- MODULE PayloadsProof ---------------------------
(***************************************************************************)
(* FilePayloadStorage under concurrent use: what threads that store and    *)
(* read the same files can do to each other.  What the converters and the  *)
(* codecs compute, which is left to the model checker, is a hypothesis.    *)
(***************************************************************************)
EXTENDS Payloads, TLAPS

\* A payload before it is stored.
Payload == [data : Seq(Byte), encoding : STRING, codec : STRING, gzipLen : Int,
            sealed : BOOLEAN, ref : {{}}]

\* The converters and the codec chain of the deployment make payloads of the values, the
\* hypothesis of the theorems.  Whether they can be decoded is no matter here.
Encodes == \A v \in Values : ToPayload(v) \in Payload

\* The threads that store, and those that are about to write the first part.
Writer     == [at : {"open", "write", "flush"}, value : Values, payload : Payload]
Writing(k) == \E t \in Threads : thread[t].at = "write" /\ Key(thread[t].payload) = k

\* A thread that stores does so with the payload of its value; its file is there once
\* it has opened it.
WriterFits(t) ==
    /\ thread[t] \in Writer /\ thread[t].payload = ToPayload(thread[t].value)
    /\ thread[t].at # "open" => Key(thread[t].payload) \in DOMAIN files

\* A thread that reads has a file before it, and in its hands the first part of it, if
\* no Store was in the way.
ReaderFits(t) ==
    /\ thread[t].message \in messages /\ thread[t].message.payload.ref # {}
    /\ thread[t].message.payload.data \in DOMAIN files
    /\ thread[t].calm \in BOOLEAN
    /\ thread[t].calm => thread[t].head = FirstPart(thread[t].message.payload.data)

ThreadFits(t) ==
    \/ thread[t].at = "idle"
    \/ thread[t].at \in {"open", "write", "flush"} /\ WriterFits(t)
    \/ thread[t].at = "read" /\ ReaderFits(t)

\* The first part of the body k is in f.
HeadWritten(f, k) == Half(k) <= Len(f) /\ \A i \in 1..Half(k) : f[i] = k[i]

\* A file no Store left behind: never longer than its body, its first part written
\* unless a Store is about to, and whole unless a Store is under way.
FileFits(k) ==
    /\ files[k] \in Seq(Byte) /\ k \in Seq(Byte) /\ Len(files[k]) <= Len(k)
    /\ Writing(k) \/ HeadWritten(files[k], k)
    /\ Storing(k) \/ files[k] = k

\* What was sent is the payload of a value, or the reference of a body that was stored.
MessageFits(m) ==
    /\ m.value \in Values
    /\ \/ m.payload = ToPayload(m.value)
       \/ /\ m.payload = Reference(ToPayload(m.value))
          /\ m.payload.data \in DOMAIN files \cup torn

ThreadsFit  == thread = [t \in Threads |-> thread[t]] /\ \A t \in Threads : ThreadFits(t)
FilesFit    == \A k \in DOMAIN files : k \notin torn => FileFits(k)
MessagesFit == \A m \in messages : MessageFits(m)

StoreInv == Encodes /\ ThreadsFit /\ FilesFit /\ MessagesFit

-----------------------------------------------------------------------------
\* The configuration stays, and with it what the codecs do.
LEMMA ConfStays ==
  ASSUME conf' = conf
  PROVE  /\ Encodes => Encodes'
         /\ \A v : ToPayload(v)' = ToPayload(v)
         /\ \A p, b : FromPayload(p, b)' = FromPayload(p, b)
<1>1. \A v : ToPayload(v)' = ToPayload(v)
  BY Zenon DEF ToPayload, ApplyCodecsEncode
<1>2. \A p, b : FromPayload(p, b)' = FromPayload(p, b)
  BY Zenon DEF FromPayload, ApplyCodecsDecode
<1>3. Encodes => Encodes'
  BY <1>1 DEF Encodes
<1> QED
  BY <1>1, <1>2, <1>3

\* The halves of a body.
LEMMA HalfIs ==
  ASSUME NEW d \in Seq(Byte)
  PROVE  /\ Half(d) \in Nat /\ Len(d) \in Nat /\ Half(d) <= Len(d)
         /\ FirstPart(d) \in Seq(Byte) /\ Len(FirstPart(d)) = Half(d)
         /\ \A i \in 1..Half(d) : FirstPart(d)[i] = d[i]
         /\ SecondPart(d) \in Seq(Byte) /\ Len(SecondPart(d)) = Len(d) - Half(d)
         /\ \A i \in 1..(Len(d) - Half(d)) : SecondPart(d)[i] = d[Half(d) + i]
<1> DEFINE h == Half(d)
           n == Len(d)
<1>1. n \in Nat /\ h \in Nat /\ h <= n
  BY DEF Half
<1> HIDE DEF h
<1>2. /\ SubSeq(d, 1, h) \in Seq(Byte) /\ Len(SubSeq(d, 1, h)) = h
      /\ \A i \in 1..h : SubSeq(d, 1, h)[i] = d[i]
  BY <1>1
<1>3. /\ SubSeq(d, h + 1, n) \in Seq(Byte) /\ Len(SubSeq(d, h + 1, n)) = n - h
      /\ \A i \in 1..(n - h) : SubSeq(d, h + 1, n)[i] = d[h + i]
  BY <1>1
<1> QED
  BY <1>1, <1>2, <1>3 DEF h, FirstPart, SecondPart

\* Writing a part into a file.
LEMMA OverlayIs ==
  ASSUME NEW f \in Seq(Byte), NEW o \in Nat, NEW d \in Seq(Byte)
  PROVE  LET g == Overlay(f, o, d)
         IN  /\ g \in Seq(Byte) /\ Len(g) \in Nat
             /\ Len(g) = IF Len(f) > o + Len(d) THEN Len(f) ELSE o + Len(d)
             /\ \A i \in 1..Len(d) : g[o + i] = d[i]
             /\ \A i \in 1..Len(f) : i <= o => g[i] = f[i]
<1> DEFINE n == Longer(Len(f), o + Len(d))
           e(i) == IF i > o /\ i <= o + Len(d) THEN d[i - o] ELSE IF i <= Len(f) THEN f[i] ELSE 0
           g == [i \in 1..n |-> e(i)]
<1>1. /\ n \in Nat /\ Len(f) \in Nat /\ Len(d) \in Nat /\ Len(f) <= n /\ o + Len(d) <= n
      /\ n = IF Len(f) > o + Len(d) THEN Len(f) ELSE o + Len(d)
  BY DEF Longer
<1>2. \A i \in 1..n : e(i) \in Byte
  <2> TAKE i \in 1..n
  <2>1. CASE i > o /\ i <= o + Len(d)
    <3>1. i - o \in 1..Len(d)
      BY <1>1, <2>1
    <3> QED
      BY <2>1, <3>1
  <2>2. CASE ~(i > o /\ i <= o + Len(d))
    <3>1. i <= Len(f) => i \in 1..Len(f)
      BY <1>1
    <3>2. 0 \in Byte
      BY DEF Byte
    <3> QED
      BY <2>2, <3>1, <3>2
  <2> QED
    BY <2>1, <2>2
<1>3. \A i \in 1..Len(d) : o + i \in 1..n /\ e(o + i) = d[i]
  <2> TAKE i \in 1..Len(d)
  <2>1. /\ o + i \in 1..n /\ o + i > o /\ o + i <= o + Len(d) /\ (o + i) - o = i
    BY <1>1
  <2> QED
    BY <2>1
<1>4. \A i \in 1..Len(f) : i <= o => i \in 1..n /\ e(i) = f[i]
  BY <1>1
<1>5. Overlay(f, o, d) = g
  BY DEF Overlay
<1> HIDE DEF n, e
<1>6. g \in Seq(Byte) /\ Len(g) = n /\ \A i \in 1..n : g[i] = e(i)
  BY <1>1, <1>2
<1> HIDE DEF g
<1> QED
  BY <1>1, <1>3, <1>4, <1>5, <1>6

\* The first part, written into a file that is no longer than the body.
LEMMA FirstWritten ==
  ASSUME NEW k \in Seq(Byte), NEW f \in Seq(Byte), Len(f) <= Len(k)
  PROVE  LET g == Overlay(f, 0, FirstPart(k))
         IN  g \in Seq(Byte) /\ Len(g) <= Len(k) /\ HeadWritten(g, k)
<1> DEFINE d == FirstPart(k)
           g == Overlay(f, 0, d)
<1>1. /\ Half(k) \in Nat /\ Len(k) \in Nat /\ Half(k) <= Len(k) /\ d \in Seq(Byte)
      /\ Len(d) = Half(k) /\ \A i \in 1..Half(k) : d[i] = k[i]
  BY HalfIs
<1> HIDE DEF d
<1>2. /\ g \in Seq(Byte) /\ Len(g) \in Nat
      /\ Len(g) = IF Len(f) > 0 + Len(d) THEN Len(f) ELSE 0 + Len(d)
      /\ \A i \in 1..Len(d) : g[0 + i] = d[i]
  BY <1>1, OverlayIs
<1> HIDE DEF g
<1>3. Len(f) \in Nat
  OBVIOUS
<1>4. \A i \in 1..Half(k) : 0 + i = i
  BY <1>1
<1>5. HeadWritten(g, k)
  BY <1>1, <1>2, <1>3, <1>4 DEF HeadWritten
<1> QED
  BY <1>1, <1>2, <1>3, <1>5 DEF g, d

\* The second part, written after the first, makes the file whole.
LEMMA SecondWritten ==
  ASSUME NEW k \in Seq(Byte), NEW f \in Seq(Byte), Len(f) <= Len(k)
  PROVE  LET g == Overlay(f, Half(k), SecondPart(k))
         IN  g \in Seq(Byte) /\ Len(g) <= Len(k) /\ (HeadWritten(f, k) => g = k)
<1> DEFINE d == SecondPart(k)
           h == Half(k)
           n == Len(k)
           g == Overlay(f, h, d)
<1>1. /\ h \in Nat /\ n \in Nat /\ h <= n /\ d \in Seq(Byte)
      /\ Len(d) = n - h /\ \A i \in 1..(n - h) : d[i] = k[h + i]
  BY HalfIs
<1> HIDE DEF d
<1>2. /\ g \in Seq(Byte) /\ Len(g) \in Nat
      /\ Len(g) = IF Len(f) > h + Len(d) THEN Len(f) ELSE h + Len(d)
      /\ \A i \in 1..Len(d) : g[h + i] = d[i]
      /\ \A i \in 1..Len(f) : i <= h => g[i] = f[i]
  BY <1>1, OverlayIs
<1>3. Len(f) \in Nat /\ Len(f) <= n
  OBVIOUS
<1>4. HeadWritten(f, k) => h <= Len(f) /\ \A i \in 1..h : f[i] = k[i]
  BY DEF HeadWritten
<1> HIDE DEF g, h
<1>5. Len(g) = n
  BY <1>1, <1>2, <1>3
<1>6. ASSUME HeadWritten(f, k), NEW i \in 1..n PROVE g[i] = k[i]
  <2>1. CASE i <= h
    <3>1. i \in 1..h /\ i \in 1..Len(f)
      BY <1>1, <1>3, <1>4, <1>6, <2>1
    <3> QED
      BY <1>2, <1>4, <1>6, <2>1, <3>1
  <2>2. CASE i > h
    <3>1. i - h \in 1..(n - h) /\ h + (i - h) = i
      BY <1>1, <2>2
    <3> QED
      BY <1>1, <1>2, <3>1
  <2> QED
    BY <1>1, <2>1, <2>2
<1>7. HeadWritten(f, k) => g = k
  BY <1>2, <1>5, <1>6
<1> QED
  BY <1>1, <1>2, <1>5, <1>7 DEF g, h, d
-----------------------------------------------------------------------------
\* A reference and what it stands for.
LEMMA ReferenceIs ==
  ASSUME NEW p \in Payload
  PROVE  /\ Key(p) = p.data /\ p.data \in Seq(Byte) /\ p.ref = {}
         /\ Reference(p).ref # {} /\ Reference(p).data = p.data
         /\ [Reference(p) EXCEPT !.data = p.data, !.ref = {}] = p
<1>1. Key(p) = p.data
  BY DEF Key
<1>2. Reference(p) = [p EXCEPT !.ref = {p.data}, !.data = p.data]
  BY DEF Reference, Key
<1>3. p.data \in Seq(Byte) /\ p.ref = {}
  BY DEF Payload
<1>4. Reference(p).ref = {p.data} /\ Reference(p).data = p.data
  BY <1>2 DEF Payload
<1>5. [Reference(p) EXCEPT !.data = p.data, !.ref = {}] = p
  BY <1>2 DEF Payload
<1> QED
  BY <1>1, <1>3, <1>4, <1>5

\* A message with a reference: its body is that of the value's payload.
LEMMA MessageIs ==
  ASSUME StoreInv, NEW m \in messages
  PROVE  /\ m.value \in Values /\ ToPayload(m.value) \in Payload
         /\ m.payload.ref = {} => m.payload = ToPayload(m.value)
         /\ m.payload.ref # {} =>
               /\ m.payload = Reference(ToPayload(m.value))
               /\ m.payload.data = ToPayload(m.value).data /\ m.payload.data \in Seq(Byte)
               /\ m.payload.data \in DOMAIN files \cup torn
<1>1. MessageFits(m)
  BY DEF StoreInv, MessagesFit
<1>2. m.value \in Values /\ ToPayload(m.value) \in Payload
  BY <1>1 DEF StoreInv, Encodes, MessageFits
<1>3. /\ ToPayload(m.value).ref = {} /\ ToPayload(m.value).data \in Seq(Byte)
      /\ Reference(ToPayload(m.value)).ref # {}
      /\ Reference(ToPayload(m.value)).data = ToPayload(m.value).data
  BY <1>2, ReferenceIs
<1> QED
  BY <1>1, <1>2, <1>3, Zenon DEF MessageFits

\* The body a thread stores.
LEMMA WriterIs ==
  ASSUME StoreInv, NEW t \in Threads, thread[t].at \in {"open", "write", "flush"}
  PROVE  /\ thread[t] \in Writer /\ thread[t].payload \in Payload /\ thread[t].value \in Values
         /\ thread[t].payload = ToPayload(thread[t].value)
         /\ Key(thread[t].payload) = thread[t].payload.data
         /\ thread[t].payload.data \in Seq(Byte)
         /\ thread[t].at # "open" => Key(thread[t].payload) \in DOMAIN files
<1>1. WriterFits(t)
  <2>1. ThreadFits(t)
    BY DEF StoreInv, ThreadsFit
  <2> QED
    BY <2>1 DEF ThreadFits
<1>2. thread[t].payload \in Payload /\ thread[t].value \in Values
  BY <1>1 DEF WriterFits, Writer
<1> QED
  BY <1>1, <1>2, ReferenceIs DEF WriterFits

\* A file a step of t does not write stays as it should be.
LEMMA FileStays ==
  ASSUME NEW t \in Threads, \A s \in Threads \ {t} : thread'[s] = thread[s],
         NEW j, FileFits(j), files'[j] = files[j],
         thread[t].at \in {"write", "flush"} => Key(thread[t].payload) # j
  PROVE  FileFits(j)'
<1>1. Writing(j) => Writing(j)'
  <2> SUFFICES ASSUME NEW s \in Threads, thread[s].at = "write", Key(thread[s].payload) = j
               PROVE  Writing(j)'
    BY DEF Writing
  <2>1. thread'[s] = thread[s]
    OBVIOUS
  <2> QED
    BY <2>1 DEF Writing, Key
<1>2. Storing(j) => Storing(j)'
  <2> SUFFICES ASSUME NEW s \in Threads, thread[s].at \in {"write", "flush"},
                      Key(thread[s].payload) = j
               PROVE  Storing(j)'
    BY DEF Storing
  <2>1. thread'[s] = thread[s]
    OBVIOUS
  <2> QED
    BY <2>1 DEF Storing, Key
<1> QED
  BY <1>1, <1>2 DEF FileFits

\* So does a message, when no file disappears.
LEMMA MessageStays ==
  ASSUME conf' = conf, NEW m, MessageFits(m),
         DOMAIN files \cup torn \subseteq DOMAIN files' \cup torn'
  PROVE  MessageFits(m)'
<1>1. ToPayload(m.value)' = ToPayload(m.value)
  BY ConfStays
<1> QED
  BY <1>1 DEF MessageFits, Reference, Key

\* And another thread.
LEMMA ThreadStays ==
  ASSUME conf' = conf, NEW s \in Threads, ThreadFits(s), thread'[s] = thread[s],
         messages \subseteq messages',
         \/ DOMAIN files \subseteq DOMAIN files'
         \/ /\ thread[s].at \in {"write", "flush"} =>
                 (Key(thread[s].payload) \in DOMAIN files => Key(thread[s].payload) \in DOMAIN files')
            /\ thread[s].at = "read" =>
                 (thread[s].message.payload.data \in DOMAIN files =>
                     thread[s].message.payload.data \in DOMAIN files')
  PROVE  ThreadFits(s)'
<1>1. CASE thread[s].at = "idle"
  BY <1>1 DEF ThreadFits
<1>2. CASE thread[s].at \in {"open", "write", "flush"}
  <2>1. WriterFits(s)
    BY <1>2 DEF ThreadFits
  <2>2. ToPayload(thread[s].value)' = ToPayload(thread[s].value)
    BY ConfStays
  <2>3. WriterFits(s)'
    BY <1>2, <2>1, <2>2 DEF WriterFits, Key
  <2> QED
    BY <1>2, <2>3 DEF ThreadFits
<1>3. CASE thread[s].at = "read"
  <2>1. ReaderFits(s)
    BY <1>3 DEF ThreadFits
  <2>2. ReaderFits(s)'
    BY <1>3, <2>1 DEF ReaderFits, FirstPart, Half
  <2> QED
    BY <1>3, <2>2 DEF ThreadFits
<1> QED
  BY <1>1, <1>2, <1>3 DEF ThreadFits
-----------------------------------------------------------------------------
\* A step of t that writes no file: what is left to show is t itself and what it sends.
LEMMA QuietStep ==
  ASSUME StoreInv, conf' = conf, files' = files, torn \subseteq torn', NEW t \in Threads,
         thread' = [thread EXCEPT ![t] = thread'[t]], messages \subseteq messages',
         \A m \in messages' \ messages : MessageFits(m)',
         ThreadFits(t)',
         thread[t].at \in {"write", "flush"} => Key(thread[t].payload) \in torn'
  PROVE  StoreInv'
<1>1. Encodes'
  BY ConfStays DEF StoreInv
<1>2. \A s \in Threads \ {t} : thread'[s] = thread[s]
  BY Zenon DEF StoreInv, ThreadsFit
<1>3. ThreadsFit'
  <2>1. thread' = [s \in Threads |-> thread'[s]]
    BY Zenon DEF StoreInv, ThreadsFit
  <2>2. ASSUME NEW s \in Threads PROVE ThreadFits(s)'
    BY <1>2, ThreadStays DEF StoreInv, ThreadsFit
  <2> QED
    BY <2>1, <2>2 DEF ThreadsFit
<1>4. FilesFit'
  <2> SUFFICES ASSUME NEW j \in DOMAIN files, j \notin torn' PROVE FileFits(j)'
    BY DEF FilesFit
  <2>1. FileFits(j)
    BY DEF StoreInv, FilesFit
  <2> QED
    BY <1>2, <2>1, FileStays
<1>5. MessagesFit'
  BY MessageStays DEF StoreInv, MessagesFit
<1> QED
  BY <1>1, <1>3, <1>4, <1>5 DEF StoreInv

LEMMA SendKeeps ==
  ASSUME StoreInv, NEW t \in Threads, Send(t)
  PROVE  StoreInv'
<1>1. PICK v \in Values :
         \/ Publish(v, ToPayload(v)) /\ UNCHANGED thread
         \/ /\ thread' = [thread EXCEPT ![t] = [at |-> "open", value |-> v, payload |-> ToPayload(v)]]
            /\ UNCHANGED messages
  BY Zenon DEF Send
<1>2. /\ thread[t].at = "idle" /\ conf' = conf /\ files' = files /\ torn' = torn
      /\ thread = [s \in Threads |-> thread[s]]
  BY Zenon DEF Send, StoreInv, ThreadsFit
<1>3. ToPayload(v) \in Payload /\ ToPayload(v)' = ToPayload(v)
  BY <1>2, ConfStays DEF StoreInv, Encodes
<1>4. CASE Publish(v, ToPayload(v)) /\ UNCHANGED thread
  <2>1. /\ messages' = messages \cup {[value |-> v, payload |-> ToPayload(v)]}
        /\ thread' = thread
    BY <1>4 DEF Publish
  <2>2. ASSUME NEW m \in messages' \ messages PROVE MessageFits(m)'
    <3>1. m.value = v /\ m.payload = ToPayload(v)
      BY <2>1
    <3> QED
      BY <1>3, <3>1 DEF MessageFits
  <2>3. ThreadFits(t)'
    BY <1>2, <2>1 DEF ThreadFits
  <2>4. thread' = [thread EXCEPT ![t] = thread'[t]]
    BY <1>2, <2>1, Zenon
  <2> QED
    BY <1>2, <2>1, <2>2, <2>3, <2>4, QuietStep
<1>5. CASE /\ thread' = [thread EXCEPT ![t] = [at |-> "open", value |-> v, payload |-> ToPayload(v)]]
           /\ UNCHANGED messages
  <2>1. thread'[t] = [at |-> "open", value |-> v, payload |-> ToPayload(v)]
    BY <1>2, <1>5, Zenon
  <2>2. thread' = [thread EXCEPT ![t] = thread'[t]]
    BY <1>5, <2>1
  <2>3. WriterFits(t)'
    BY <1>3, <2>1 DEF WriterFits, Writer
  <2>4. ThreadFits(t)'
    BY <2>1, <2>3 DEF ThreadFits
  <2> QED
    BY <1>2, <1>5, <2>2, <2>4, QuietStep
<1> QED
  BY <1>1, <1>4, <1>5

LEMMA StoreCutKeeps ==
  ASSUME StoreInv, NEW t \in Threads, StoreCut(t)
  PROVE  StoreInv'
<1>1. /\ thread' = [thread EXCEPT ![t] = Idle] /\ thread = [s \in Threads |-> thread[s]]
      /\ conf' = conf /\ files' = files /\ messages' = messages
      /\ torn' = torn \cup {k \in {Key(thread[t].payload)} : thread[t].at # "open"}
  BY Zenon DEF StoreCut, StoreInv, ThreadsFit
<1>2. thread'[t] = Idle /\ thread' = [thread EXCEPT ![t] = thread'[t]]
  BY <1>1, Zenon
<1>3. ThreadFits(t)'
  BY <1>2 DEF ThreadFits, Idle
<1>4. thread[t].at \in {"write", "flush"} => Key(thread[t].payload) \in torn'
  BY <1>1
<1> QED
  BY <1>1, <1>2, <1>3, <1>4, QuietStep

\* A step of t that writes the file of its body: what is left to show is that file.
LEMMA WriteStep ==
  ASSUME StoreInv, conf' = conf, torn' = torn, NEW t \in Threads, NEW k, NEW d,
         thread' = [thread EXCEPT ![t] = thread'[t]], messages \subseteq messages',
         \A m \in messages' \ messages : MessageFits(m)',
         ThreadFits(t)',
         thread[t].at \in {"open", "write", "flush"},
         k = Key(thread[t].payload), SetFile(k, d), k \notin torn => FileFits(k)'
  PROVE  StoreInv'
<1>1. Encodes'
  BY ConfStays DEF StoreInv
<1>2. \A s \in Threads \ {t} : thread'[s] = thread[s]
  BY Zenon DEF StoreInv, ThreadsFit
<1>3. DOMAIN files' = DOMAIN files \cup {k} /\ \A j \in DOMAIN files : j # k => files'[j] = files[j]
  BY DEF SetFile
<1>4. ThreadsFit'
  <2>1. thread' = [s \in Threads |-> thread'[s]]
    BY Zenon DEF StoreInv, ThreadsFit
  <2>2. ASSUME NEW s \in Threads PROVE ThreadFits(s)'
    BY <1>2, <1>3, ThreadStays DEF StoreInv, ThreadsFit
  <2> QED
    BY <2>1, <2>2 DEF ThreadsFit
<1>5. FilesFit'
  <2> SUFFICES ASSUME NEW j \in DOMAIN files', j \notin torn PROVE FileFits(j)'
    BY DEF FilesFit
  <2>1. CASE j = k
    BY <2>1
  <2>2. CASE j # k
    <3>1. j \in DOMAIN files /\ files'[j] = files[j]
      BY <1>3, <2>2
    <3>2. FileFits(j)
      BY <3>1 DEF StoreInv, FilesFit
    <3> QED
      BY <1>2, <2>2, <3>1, <3>2, FileStays
  <2> QED
    BY <2>1, <2>2
<1>6. MessagesFit'
  BY <1>3, MessageStays DEF StoreInv, MessagesFit
<1> QED
  BY <1>1, <1>4, <1>5, <1>6 DEF StoreInv
LEMMA StoreOpenKeeps ==
  ASSUME StoreInv, NEW t \in Threads, StoreOpen(t)
  PROVE  StoreInv'
<1>1. PICK k : k = Key(thread[t].payload)
  OBVIOUS
<1>2. /\ thread[t].at = "open" /\ SetFile(k, << >>)
      /\ thread' = [thread EXCEPT ![t].at = "write"] /\ thread = [s \in Threads |-> thread[s]]
      /\ conf' = conf /\ messages' = messages /\ torn' = torn
  BY <1>1, Zenon DEF StoreOpen, StoreInv, ThreadsFit
<1>3. /\ thread[t] \in Writer /\ thread[t].payload = ToPayload(thread[t].value)
      /\ k \in Seq(Byte)
  BY <1>1, <1>2, WriterIs
<1>4. thread'[t] = [thread[t] EXCEPT !.at = "write"] /\ thread' = [thread EXCEPT ![t] = thread'[t]]
  BY <1>2, Zenon
<1>5. /\ thread'[t] \in Writer /\ thread'[t].at = "write" /\ thread'[t].value = thread[t].value
      /\ thread'[t].payload = thread[t].payload
  BY <1>3, <1>4 DEF Writer
<1>6. k \in DOMAIN files' /\ files'[k] = << >>
  BY <1>2 DEF SetFile
<1>7. ThreadFits(t)'
  <2>1. \A v : ToPayload(v)' = ToPayload(v)
    BY <1>2, ConfStays
  <2>2. WriterFits(t)'
    BY <1>1, <1>3, <1>5, <1>6, <2>1 DEF WriterFits, Key
  <2> QED
    BY <1>5, <2>2 DEF ThreadFits
<1>8. FileFits(k)'
  <2>1. Writing(k)' /\ Storing(k)'
    BY <1>1, <1>5 DEF Writing, Storing, Key
  <2>2. << >> \in Seq(Byte) /\ Len(<< >>) <= Len(k)
    BY <1>3
  <2> QED
    BY <1>3, <1>6, <2>1, <2>2 DEF FileFits
<1> QED
  BY <1>1, <1>2, <1>4, <1>7, <1>8, WriteStep

LEMMA StoreWriteKeeps ==
  ASSUME StoreInv, NEW t \in Threads, StoreWrite(t)
  PROVE  StoreInv'
<1>1. PICK k : k = Key(thread[t].payload)
  OBVIOUS
<1>2. PICK d : d = Overlay(files[k], 0, FirstPart(k))
  OBVIOUS
<1>3. /\ thread[t].at = "write" /\ thread[t].payload.data = k
      /\ thread' = [thread EXCEPT ![t].at = "flush"] /\ thread = [s \in Threads |-> thread[s]]
      /\ conf' = conf /\ messages' = messages /\ torn' = torn
  BY <1>1, Zenon DEF StoreWrite, StoreInv, ThreadsFit, Key
<1>4. SetFile(k, d)
  BY <1>1, <1>2, <1>3 DEF StoreWrite
<1>5. /\ thread[t] \in Writer /\ thread[t].payload = ToPayload(thread[t].value)
      /\ k \in Seq(Byte) /\ k \in DOMAIN files
  BY <1>1, <1>3, WriterIs
<1>6. thread'[t] = [thread[t] EXCEPT !.at = "flush"] /\ thread' = [thread EXCEPT ![t] = thread'[t]]
  BY <1>3, Zenon
<1>7. /\ thread'[t] \in Writer /\ thread'[t].at = "flush" /\ thread'[t].value = thread[t].value
      /\ thread'[t].payload = thread[t].payload
  BY <1>5, <1>6 DEF Writer
<1>8. k \in DOMAIN files' /\ files'[k] = d
  BY <1>4 DEF SetFile
<1>9. ThreadFits(t)'
  <2>1. \A v : ToPayload(v)' = ToPayload(v)
    BY <1>3, ConfStays
  <2>2. WriterFits(t)'
    BY <1>1, <1>5, <1>7, <1>8, <2>1 DEF WriterFits, Key
  <2> QED
    BY <1>7, <2>2 DEF ThreadFits
<1>10. ASSUME k \notin torn PROVE FileFits(k)'
  <2>1. files[k] \in Seq(Byte) /\ Len(files[k]) <= Len(k)
    BY <1>5, <1>10 DEF StoreInv, FilesFit, FileFits
  <2>2. d \in Seq(Byte) /\ Len(d) <= Len(k) /\ HeadWritten(d, k)
    BY <1>2, <1>5, <2>1, FirstWritten
  <2>3. Storing(k)'
    BY <1>1, <1>7 DEF Storing, Key
  <2> QED
    BY <1>5, <1>8, <2>2, <2>3 DEF FileFits
<1> QED
  BY <1>1, <1>3, <1>4, <1>6, <1>9, <1>10, WriteStep

\* A file that is whole has its first part.
LEMMA WholeHasHead ==
  ASSUME NEW k \in Seq(Byte)
  PROVE  HeadWritten(k, k)
  BY HalfIs DEF HeadWritten

LEMMA StoreFlushKeeps ==
  ASSUME StoreInv, NEW t \in Threads, StoreFlush(t)
  PROVE  StoreInv'
<1>1. PICK k : k = Key(thread[t].payload)
  OBVIOUS
<1>2. PICK d : d = Overlay(files[k], Half(k), SecondPart(k))
  OBVIOUS
<1>3. /\ thread[t].at = "flush" /\ thread[t].payload.data = k
      /\ thread' = [thread EXCEPT ![t] = Idle] /\ thread = [s \in Threads |-> thread[s]]
      /\ conf' = conf /\ torn' = torn
  BY <1>1, Zenon DEF StoreFlush, StoreInv, ThreadsFit, Key
<1>4. /\ SetFile(k, d)
      /\ messages' = messages \cup {[value |-> thread[t].value, payload |-> Reference(thread[t].payload)]}
  BY <1>1, <1>2, <1>3 DEF StoreFlush, Publish
<1>5. /\ thread[t].payload \in Payload /\ thread[t].value \in Values
      /\ thread[t].payload = ToPayload(thread[t].value)
      /\ k \in Seq(Byte) /\ k \in DOMAIN files
  BY <1>1, <1>3, WriterIs
<1>6. thread'[t] = Idle /\ thread' = [thread EXCEPT ![t] = thread'[t]]
  BY <1>3, Zenon
<1>7. k \in DOMAIN files' /\ files'[k] = d
  BY <1>4 DEF SetFile
<1>8. ThreadFits(t)'
  BY <1>6 DEF ThreadFits, Idle
<1>9. ASSUME NEW m \in messages' \ messages PROVE MessageFits(m)'
  <2>1. m.value = thread[t].value /\ m.payload = Reference(thread[t].payload)
    BY <1>4
  <2>2. Reference(thread[t].payload).data = k
    BY <1>3, <1>5, ReferenceIs
  <2>3. \A v : ToPayload(v)' = ToPayload(v)
    BY <1>3, ConfStays
  <2>4. m.payload = Reference(ToPayload(m.value)) /\ m.payload.data = k
    BY <1>5, <2>1, <2>2
  <2>5. Reference(ToPayload(m.value))' = Reference(ToPayload(m.value))
    BY <2>3, Zenon DEF Reference, Key
  <2> QED
    BY <1>5, <1>7, <2>1, <2>4, <2>5 DEF MessageFits
<1>10. ASSUME k \notin torn PROVE FileFits(k)'
  <2>1. /\ files[k] \in Seq(Byte) /\ Len(files[k]) <= Len(k)
        /\ Writing(k) \/ HeadWritten(files[k], k)
    BY <1>5, <1>10 DEF StoreInv, FilesFit, FileFits
  <2>2. d \in Seq(Byte) /\ Len(d) <= Len(k) /\ (HeadWritten(files[k], k) => d = k)
    BY <1>2, <1>5, <2>1, SecondWritten
  <2>3. CASE HeadWritten(files[k], k)
    BY <1>5, <1>7, <2>2, <2>3, WholeHasHead DEF FileFits
  <2>4. CASE Writing(k)
    <3>1. PICK s \in Threads : thread[s].at = "write" /\ Key(thread[s].payload) = k
      BY <2>4 DEF Writing
    <3>2. thread'[s] = thread[s]
      BY <1>3, <3>1
    <3>3. Writing(k)' /\ Storing(k)'
      BY <3>1, <3>2 DEF Writing, Storing, Key
    <3> QED
      BY <1>5, <1>7, <2>2, <3>3 DEF FileFits
  <2> QED
    BY <2>1, <2>3, <2>4
<1> QED
  BY <1>1, <1>3, <1>4, <1>6, <1>8, <1>9, <1>10, WriteStep
\* The three ways a Resolve can begin.
ResolvePassed(t, m) ==
    m.payload.ref = {} /\ Decoded(t, m, m.payload, TRUE) /\ UNCHANGED thread

ResolveFails(t, m) ==
    /\ m.payload.ref # {} /\ m.payload.data \notin DOMAIN files
    /\ outcome' = [outcome EXCEPT ![t] = [sent |-> m.value, got |-> Error, calm |-> Calm(m.payload.data)]]
    /\ UNCHANGED thread

ResolveStarts(t, m) ==
    /\ m.payload.ref # {} /\ m.payload.data \in DOMAIN files
    /\ LET k == m.payload.data
           f == files[k]
       IN  thread' = [thread EXCEPT ![t] =
               [at |-> "read", message |-> m, calm |-> Calm(k),
                head |-> SubSeq(f, 1, IF Half(k) < Len(f) THEN Half(k) ELSE Len(f))]]
    /\ UNCHANGED outcome

\* A file that nobody stores and that no Store left behind is whole.
LEMMA CalmIsWhole ==
  ASSUME StoreInv, NEW k \in DOMAIN files, Calm(k)
  PROVE  files[k] = k
BY DEF StoreInv, FilesFit, FileFits, Calm

LEMMA ResolveIs ==
  ASSUME NEW t \in Threads, Resolve(t)
  PROVE  /\ thread[t].at = "idle"
         /\ \E m \in messages : ResolvePassed(t, m) \/ ResolveFails(t, m) \/ ResolveStarts(t, m)
         /\ conf' = conf /\ files' = files /\ messages' = messages /\ torn' = torn
  BY Zenon DEF Resolve, ResolvePassed, ResolveFails, ResolveStarts

LEMMA ResolveKeeps ==
  ASSUME StoreInv, NEW t \in Threads, Resolve(t)
  PROVE  StoreInv'
<1>1. PICK m \in messages : ResolvePassed(t, m) \/ ResolveFails(t, m) \/ ResolveStarts(t, m)
  BY ResolveIs
<1>2. /\ thread[t].at = "idle" /\ thread = [s \in Threads |-> thread[s]]
      /\ conf' = conf /\ files' = files /\ messages' = messages /\ torn' = torn
  BY ResolveIs DEF StoreInv, ThreadsFit
<1>3. CASE ResolvePassed(t, m) \/ ResolveFails(t, m)
  <2>1. thread' = thread
    BY <1>3, Zenon DEF ResolvePassed, ResolveFails
  <2>2. thread' = [thread EXCEPT ![t] = thread'[t]]
    BY <1>2, <2>1, Zenon
  <2>3. ThreadFits(t)'
    BY <1>2, <2>1 DEF ThreadFits
  <2> QED
    BY <1>2, <2>2, <2>3, QuietStep
<1>4. CASE ResolveStarts(t, m)
  <2> DEFINE k == m.payload.data
             f == files[k]
  <2>1. /\ m.payload.ref # {} /\ k \in DOMAIN files
        /\ thread' = [thread EXCEPT ![t] =
               [at |-> "read", message |-> m, calm |-> Calm(k),
                head |-> SubSeq(f, 1, IF Half(k) < Len(f) THEN Half(k) ELSE Len(f))]]
    BY <1>4, Zenon DEF ResolveStarts
  <2>2. thread'[t] = [at |-> "read", message |-> m, calm |-> Calm(k),
                      head |-> SubSeq(f, 1, IF Half(k) < Len(f) THEN Half(k) ELSE Len(f))]
    BY <1>2, <2>1, Zenon
  <2>3. thread' = [thread EXCEPT ![t] = thread'[t]]
    BY <2>1, <2>2
  <2>4. k \in Seq(Byte)
    BY <2>1, MessageIs
  <2>5. f = k => SubSeq(f, 1, IF Half(k) < Len(f) THEN Half(k) ELSE Len(f)) = FirstPart(k)
    <3>1. Half(k) \in Nat /\ Len(k) \in Nat /\ Half(k) <= Len(k)
      BY <2>4, HalfIs
    <3>2. (IF Half(k) < Len(k) THEN Half(k) ELSE Len(k)) = Half(k)
      BY <3>1
    <3> QED
      BY <3>2, Zenon DEF FirstPart
  <2>6. /\ thread'[t].at = "read" /\ thread'[t].message = m
        /\ thread'[t].calm \in BOOLEAN /\ (thread'[t].calm => f = k)
        /\ thread'[t].head = SubSeq(f, 1, IF Half(k) < Len(f) THEN Half(k) ELSE Len(f))
    <3> DEFINE h == SubSeq(f, 1, IF Half(k) < Len(f) THEN Half(k) ELSE Len(f))
               w == Calm(k)
    <3>1. thread'[t] = [at |-> "read", message |-> m, calm |-> w, head |-> h]
      BY <2>2
    <3>2. w \in BOOLEAN
      BY DEF Calm
    <3>3. w => f = k
      BY <2>1, CalmIsWhole
    <3> HIDE DEF h, w
    <3>4. /\ thread'[t].at = "read" /\ thread'[t].message = m /\ thread'[t].head = h
          /\ thread'[t].calm \in BOOLEAN /\ (thread'[t].calm => w)
      BY <3>1, <3>2
    <3> QED
      BY <3>3, <3>4 DEF h, w
  <2>7. ReaderFits(t)'
    <3>1. (thread[t].message)' = m /\ (thread[t].calm)' \in BOOLEAN
      BY <2>6
    <3>2. (thread[t].calm)' => (thread[t].head)' = FirstPart(k)
      BY <2>5, <2>6
    <3>3. FirstPart((thread[t].message.payload.data)') = FirstPart(k)
      BY <3>1, Zenon
    <3> QED
      BY <1>2, <2>1, <3>1, <3>2, <3>3 DEF ReaderFits, FirstPart, Half
  <2>8. ThreadFits(t)'
    BY <2>6, <2>7 DEF ThreadFits
  <2> QED
    BY <1>2, <2>3, <2>8, QuietStep
<1> QED
  BY <1>1, <1>3, <1>4

LEMMA ResolveReadKeeps ==
  ASSUME StoreInv, NEW t \in Threads, ResolveRead(t)
  PROVE  StoreInv'
<1>1. /\ thread[t].at = "read" /\ thread = [s \in Threads |-> thread[s]]
      /\ thread' = [thread EXCEPT ![t] = Idle]
      /\ conf' = conf /\ files' = files /\ messages' = messages /\ torn' = torn
  BY Zenon DEF ResolveRead, StoreInv, ThreadsFit
<1>2. thread'[t] = Idle /\ thread' = [thread EXCEPT ![t] = thread'[t]]
  BY <1>1, Zenon
<1>3. ThreadFits(t)'
  BY <1>2 DEF ThreadFits, Idle
<1> QED
  BY <1>1, <1>2, <1>3, QuietStep

LEMMA FileLostKeeps ==
  ASSUME StoreInv, FileLost
  PROVE  StoreInv'
<1>1. PICK k \in DOMAIN files :
         /\ ~Storing(k)
         /\ \A t \in Threads : thread[t].at = "read" => thread[t].message.payload.data # k
         /\ files' = [j \in DOMAIN files \ {k} |-> files[j]]
         /\ torn' = torn \cup {k}
  BY Zenon DEF FileLost
<1>2. conf' = conf /\ thread' = thread /\ messages' = messages
  BY Zenon DEF FileLost
<1>3. Encodes'
  BY <1>2, ConfStays DEF StoreInv
<1>4. DOMAIN files' = DOMAIN files \ {k} /\ \A j \in DOMAIN files' : files'[j] = files[j]
  BY <1>1
<1>5. ThreadsFit'
  <2>1. thread' = [s \in Threads |-> thread'[s]]
    BY <1>2, Zenon DEF StoreInv, ThreadsFit
  <2>2. ASSUME NEW s \in Threads PROVE ThreadFits(s)'
    <3>1. ThreadFits(s) /\ thread'[s] = thread[s]
      BY <1>2 DEF StoreInv, ThreadsFit
    <3>2. thread[s].at \in {"write", "flush"} => Key(thread[s].payload) # k
      BY <1>1 DEF Storing
    <3> QED
      BY <1>1, <1>2, <1>4, <3>1, <3>2, ThreadStays
  <2> QED
    BY <2>1, <2>2 DEF ThreadsFit
<1>6. FilesFit'
  <2> SUFFICES ASSUME NEW j \in DOMAIN files', j \notin torn' PROVE FileFits(j)'
    BY DEF FilesFit
  <2>1. j \in DOMAIN files /\ j \notin torn /\ files'[j] = files[j]
    BY <1>1, <1>4
  <2>2. FileFits(j)
    BY <2>1 DEF StoreInv, FilesFit
  <2> QED
    BY <1>2, <2>1, <2>2 DEF FileFits, Writing, Storing, Key
<1>7. MessagesFit'
  BY <1>1, <1>2, <1>4, MessageStays DEF StoreInv, MessagesFit
<1> QED
  BY <1>3, <1>5, <1>6, <1>7 DEF StoreInv

-----------------------------------------------------------------------------
LEMMA StoreInit == Init /\ Encodes => StoreInv
<1> SUFFICES ASSUME Init, Encodes PROVE StoreInv
  OBVIOUS
<1>1. ThreadsFit
  BY DEF Init, ThreadsFit, ThreadFits, Idle
<1>2. FilesFit
  <2>1. DOMAIN files = {}
    BY DEF Init
  <2> QED
    BY <2>1 DEF FilesFit
<1>3. MessagesFit
  BY DEF Init, MessagesFit
<1> QED
  BY <1>1, <1>2, <1>3 DEF StoreInv

LEMMA StoreNext == StoreInv /\ [Next]_vars => StoreInv'
<1> SUFFICES ASSUME StoreInv, [Next]_vars PROVE StoreInv'
  OBVIOUS
<1>1. ASSUME NEW t \in Threads,
             \/ Send(t) \/ StoreOpen(t) \/ StoreWrite(t) \/ StoreFlush(t) \/ StoreCut(t)
             \/ Resolve(t) \/ ResolveRead(t)
      PROVE  StoreInv'
  BY <1>1, SendKeeps, StoreOpenKeeps, StoreWriteKeeps, StoreFlushKeeps, StoreCutKeeps,
     ResolveKeeps, ResolveReadKeeps, Zenon
<1>2. CASE FileLost
  BY <1>2, FileLostKeeps
<1>3. CASE UNCHANGED vars
  <2>1. conf' = conf /\ files' = files /\ thread' = thread /\ messages' = messages /\ torn' = torn
    BY <1>3, Zenon DEF vars
  <2>2. Encodes'
    BY <2>1, ConfStays DEF StoreInv
  <2>3. ThreadsFit'
    BY <2>1, ThreadStays DEF StoreInv, ThreadsFit
  <2>4. FilesFit'
    BY <2>1 DEF StoreInv, FilesFit, FileFits, Writing, Storing, Key
  <2>5. MessagesFit'
    BY <2>1, MessageStays DEF StoreInv, MessagesFit
  <2> QED
    BY <2>2, <2>3, <2>4, <2>5 DEF StoreInv
<1> QED
  BY <1>1, <1>2, <1>3, Zenon DEF Next

\* A reference given away resolves, unless a Store of its body is under way, or was cut
\* short, or the file is lost: however the Stores and Resolves of any number of threads
\* that share the directory interleave.
THEOREM ReferencesAlwaysResolve == Spec /\ Encodes => []ReferencesResolve
<1>1. StoreInv => ReferencesResolve
  <2> SUFFICES ASSUME StoreInv, NEW m \in messages, m.payload.ref # {}
               PROVE  LET k == m.payload.data
                      IN  Storing(k) \/ k \in torn \/ (k \in DOMAIN files /\ files[k] = k)
    BY Zenon DEF ReferencesResolve
  <2> DEFINE k == m.payload.data
  <2>1. k \in DOMAIN files \cup torn
    BY MessageIs
  <2>2. k \notin torn => FileFits(k)
    BY <2>1 DEF StoreInv, FilesFit
  <2> QED
    BY <2>1, <2>2 DEF FileFits
<1> QED
  BY StoreInit, StoreNext, <1>1, PTL DEF Spec
-----------------------------------------------------------------------------
\* The two parts of a body are the body.
LEMMA PartsAreWhole ==
  ASSUME NEW k \in Seq(Byte)
  PROVE  FirstPart(k) \o SecondPart(k) = k
<1> DEFINE a == FirstPart(k)
           b == SecondPart(k)
           h == Half(k)
           n == Len(k)
           c == a \o b
<1>1. /\ h \in Nat /\ n \in Nat /\ h <= n
      /\ a \in Seq(Byte) /\ Len(a) = h /\ \A i \in 1..h : a[i] = k[i]
      /\ b \in Seq(Byte) /\ Len(b) = n - h /\ \A i \in 1..(n - h) : b[i] = k[h + i]
  BY HalfIs
<1> HIDE DEF a, b, h
<1>2. /\ c \in Seq(Byte) /\ Len(c) = n
      /\ \A i \in 1..n : c[i] = IF i <= h THEN a[i] ELSE b[i - h]
  BY <1>1
<1> HIDE DEF c
<1>3. ASSUME NEW i \in 1..n PROVE c[i] = k[i]
  <2>1. CASE i <= h
    BY <1>1, <1>2, <2>1
  <2>2. CASE i > h
    <3>1. i - h \in 1..(n - h) /\ h + (i - h) = i
      BY <1>1, <2>2
    <3> QED
      BY <1>1, <1>2, <2>2, <3>1
  <2> QED
    BY <1>1, <2>1, <2>2
<1>4. c = k
  BY <1>2, <1>3
<1> QED
  BY <1>4 DEF a, b, c

\* Every receiver's outcome is what the payload itself would have given.
AlikeInv ==
    outcome = [t \in Threads |-> outcome[t]] /\ ResolvesAlike

\* What is alike after a step that leaves the configuration alone.
LEMMA AlikeAfter ==
  ASSUME conf' = conf,
         \A s \in Threads : outcome'[s].calm =>
             outcome'[s].got = FromPayload(ToPayload(outcome'[s].sent), outcome'[s].sent.kind = "proto")
  PROVE  ResolvesAlike'
BY Zenon DEF ResolvesAlike, FromPayload, ToPayload, ApplyCodecsEncode, ApplyCodecsDecode

LEMMA AlikeStays ==
  ASSUME AlikeInv, conf' = conf, outcome' = outcome
  PROVE  AlikeInv'
<1>1. \A s \in Threads : outcome'[s].calm =>
          outcome'[s].got = FromPayload(ToPayload(outcome'[s].sent), outcome'[s].sent.kind = "proto")
  BY Zenon DEF AlikeInv, ResolvesAlike
<1> QED
  BY <1>1, AlikeAfter DEF AlikeInv

\* What t decodes is right, and the others' outcomes are left alone.
LEMMA DecodedRight ==
  ASSUME AlikeInv, conf' = conf, NEW t \in Threads, NEW sent, NEW got, NEW calm \in BOOLEAN,
         outcome' = [outcome EXCEPT ![t] = [sent |-> sent, got |-> got, calm |-> calm]],
         calm => got = FromPayload(ToPayload(sent), sent.kind = "proto")
  PROVE  AlikeInv'
<1>1. outcome = [s \in Threads |-> outcome[s]] /\ ResolvesAlike
  BY DEF AlikeInv
<1>2. /\ outcome' = [s \in Threads |-> outcome'[s]]
      /\ outcome'[t] = [sent |-> sent, got |-> got, calm |-> calm]
      /\ \A s \in Threads \ {t} : outcome'[s] = outcome[s]
  BY <1>1, Zenon
<1>3. outcome'[t].calm = calm /\ outcome'[t].got = got /\ outcome'[t].sent = sent
  BY <1>2
<1>4. ASSUME NEW s \in Threads, outcome'[s].calm
      PROVE  outcome'[s].got = FromPayload(ToPayload(outcome'[s].sent), outcome'[s].sent.kind = "proto")
  <2>1. CASE s = t
    BY <1>3, <1>4, <2>1
  <2>2. CASE s # t
    <3>1. outcome'[s] = outcome[s]
      BY <1>2, <2>2
    <3> QED
      BY <1>1, <1>4, <3>1 DEF ResolvesAlike
  <2> QED
    BY <2>1, <2>2
<1>5. ResolvesAlike'
  BY <1>4, AlikeAfter
<1> QED
  BY <1>2, <1>5 DEF AlikeInv

LEMMA ResolveAlike ==
  ASSUME StoreInv, AlikeInv, NEW t \in Threads, Resolve(t)
  PROVE  AlikeInv'
<1>1. PICK m \in messages : ResolvePassed(t, m) \/ ResolveFails(t, m) \/ ResolveStarts(t, m)
  BY ResolveIs
<1>2. conf' = conf
  BY ResolveIs
<1>3. CASE ResolvePassed(t, m)
  <2>1. outcome' = [outcome EXCEPT ![t] =
            [sent |-> m.value, got |-> FromPayload(m.payload, m.value.kind = "proto"), calm |-> TRUE]]
    BY <1>3, Zenon DEF ResolvePassed, Decoded
  <2>2. m.payload = ToPayload(m.value)
    BY <1>3, MessageIs DEF ResolvePassed
  <2> QED
    BY <1>2, <2>1, <2>2, DecodedRight, Zenon
<1>4. CASE ResolveFails(t, m)
  <2>1. /\ outcome' = [outcome EXCEPT ![t] =
               [sent |-> m.value, got |-> Error, calm |-> Calm(m.payload.data)]]
        /\ m.payload.ref # {} /\ m.payload.data \notin DOMAIN files
    BY <1>4, Zenon DEF ResolveFails
  <2>2. m.payload.data \in torn
    BY <2>1, MessageIs
  <2>3. Calm(m.payload.data) = FALSE
    BY <2>2 DEF Calm
  <2> QED
    BY <1>2, <2>1, <2>3, DecodedRight
<1>5. CASE ResolveStarts(t, m)
  <2>1. outcome' = outcome
    BY <1>5, Zenon DEF ResolveStarts
  <2> QED
    BY <1>2, <2>1, AlikeStays
<1> QED
  BY <1>1, <1>3, <1>4, <1>5

LEMMA ResolveReadAlike ==
  ASSUME StoreInv, AlikeInv, NEW t \in Threads, ResolveRead(t)
  PROVE  AlikeInv'
<1> DEFINE m == thread[t].message
           k == m.payload.data
           f == files[k]
           n == Len(thread[t].head)
           d == IF n < Half(k) THEN thread[t].head ELSE thread[t].head \o SubSeq(f, n + 1, Len(f))
           p == [m.payload EXCEPT !.data = d, !.ref = {}]
           got == FromPayload(p, m.value.kind = "proto")
           w == thread[t].calm /\ Calm(k)
<1>1. /\ thread[t].at = "read" /\ conf' = conf
      /\ outcome' = [outcome EXCEPT ![t] = [sent |-> m.value, got |-> got, calm |-> w]]
  BY Zenon DEF ResolveRead, Decoded
<1>2. ReaderFits(t)
  <2>1. ThreadFits(t)
    BY DEF StoreInv, ThreadsFit
  <2> QED
    BY <1>1, <2>1 DEF ThreadFits
<1>3. /\ m.value \in Values /\ ToPayload(m.value) \in Payload
      /\ m.payload = Reference(ToPayload(m.value))
      /\ k = ToPayload(m.value).data /\ k \in Seq(Byte)
  BY <1>2, MessageIs DEF ReaderFits
<1>4. ASSUME w PROVE got = FromPayload(ToPayload(m.value), m.value.kind = "proto")
  <2>1. thread[t].head = FirstPart(k) /\ f = k
    BY <1>2, <1>4, CalmIsWhole DEF ReaderFits
  <2>2. n = Half(k) /\ Half(k) \in Nat
    BY <1>3, <2>1, HalfIs
  <2>3. d = FirstPart(k) \o SecondPart(k)
    <3>1. ~(n < Half(k))
      BY <2>2
    <3>2. SubSeq(f, n + 1, Len(f)) = SecondPart(k)
      BY <2>1, <2>2, Zenon DEF SecondPart
    <3> QED
      BY <2>1, <3>1, <3>2, Zenon
  <2>4. d = k
    BY <1>3, <2>3, PartsAreWhole
  <2>5. p = [Reference(ToPayload(m.value)) EXCEPT !.data = ToPayload(m.value).data, !.ref = {}]
    BY <1>3, <2>4, Zenon
  <2>6. p = ToPayload(m.value)
    BY <1>3, <2>5, ReferenceIs
  <2> QED
    BY <2>6, Zenon
<1>5. w \in BOOLEAN
  BY <1>2, Zenon DEF ReaderFits, Calm
<1> HIDE DEF got, w
<1> QED
  BY <1>1, <1>4, <1>5, DecodedRight

LEMMA AlikeInit == Init => AlikeInv
  BY DEF Init, AlikeInv, ResolvesAlike

LEMMA AlikeNext == StoreInv /\ AlikeInv /\ [Next]_vars => AlikeInv'
<1> SUFFICES ASSUME StoreInv, AlikeInv, [Next]_vars PROVE AlikeInv'
  OBVIOUS
<1>1. ASSUME NEW t \in Threads, Resolve(t) \/ ResolveRead(t) PROVE AlikeInv'
  BY <1>1, ResolveAlike, ResolveReadAlike
<1>2. ASSUME outcome' = outcome, conf' = conf PROVE AlikeInv'
  BY <1>2, AlikeStays
<1>3. ASSUME NEW t \in Threads,
             Send(t) \/ StoreOpen(t) \/ StoreWrite(t) \/ StoreFlush(t) \/ StoreCut(t)
      PROVE  outcome' = outcome /\ conf' = conf
  BY <1>3, Zenon DEF Send, StoreOpen, StoreWrite, StoreFlush, StoreCut
<1>4. ASSUME FileLost \/ UNCHANGED vars PROVE outcome' = outcome /\ conf' = conf
  BY <1>4, Zenon DEF FileLost, vars
<1> QED
  BY <1>1, <1>2, <1>3, <1>4, Zenon DEF Next

\* Through the store a receiver gets what it would have got from the payload itself: its
\* two reads make up the body, in whatever order they come with the Stores of any number
\* of threads, unless one was under way, or had been cut short, when it read.
THEOREM ResolvedAlike == Spec /\ Encodes => []ResolvesAlike
<1>1. AlikeInv => ResolvesAlike
  BY DEF AlikeInv
<1> QED
  BY StoreInit, StoreNext, AlikeInit, AlikeNext, <1>1, PTL DEF Spec
=============================================================================
