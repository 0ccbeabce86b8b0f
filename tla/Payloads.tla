------------------------------ MODULE Payloads ------------------------------
(***************************************************************************)
(* How a value gets from one process to another: DataConverter turns it    *)
(* into a payload (converter, then the codecs in order), FilePayloadStorage*)
(* may put the payload's body into a file and leave a reference in its     *)
(* place, and the receiver undoes all of it in reverse.                    *)
(*                                                                         *)
(* A body is a sequence of bytes.  The file of a body is written and read  *)
(* in two parts, since neither is atomic: threads and processes that share *)
(* the directory see each other's files half written.                      *)
(***************************************************************************)
EXTENDS Integers, Sequences, SequencesExt

CONSTANTS
    Threads,
    Values,      \* records [kind, data]; data is the value's own serialized form
    Chains,      \* the codec chains a deployment may use
    MaxSends,    \* bound: values sent
    MaxFaults    \* bound: stores cut short, files lost

Byte  == 0..255
Kinds == {"null", "binary", "json", "proto"}

ASSUME PayloadsAssumption ==
    /\ \A v \in Values : v.kind \in Kinds /\ v.data \in Seq(Byte)
    /\ Chains \subseteq Seq({"base64", "gzip", "custom"})
    /\ MaxSends \in Nat /\ MaxFaults \in Nat

VARIABLES
    conf,       \* the peers' DataConverter: its codecs and the sender's proto_json_
    files,      \* the files of the store's directory, by name
    thread,     \* what each thread is doing
    messages,   \* the payloads that were sent
    outcome,    \* for each thread, the value it decoded last
    torn,       \* the files of stores that were cut short, and lost files (ghost)
    sends, faults

vars == <<conf, files, thread, messages, outcome, torn, sends, faults>>

\* What a conversion that throws gives.
Error == [kind |-> "error", data |-> << >>]

-----------------------------------------------------------------------------
(***************************************************************************)
(* The converters.                                                         *)
(***************************************************************************)
Plain(enc, d) == [data |-> d, encoding |-> enc, codec |-> "none", gzipLen |-> -1,
                  sealed |-> FALSE, ref |-> {}]

\* The text of a binary value, or of a message, where the JSON mapping is used for it.
AsText(d) == <<123>> \o d

\* ToPayload of one converter: the payload, or none if the value is not for it.
NilToPayload(v)   == IF v.kind = "null" THEN {Plain("binary/null", << >>)} ELSE {}
BytesToPayload(v) == IF v.kind = "binary" THEN {Plain("binary/plain", v.data)} ELSE {}
JsonToPayload(v)  == {Plain("json/plain", IF v.kind = "json" THEN v.data ELSE AsText(v.data))}

\* ToPayloadJson: "the first that accepts a value wins".
ToPayloadJson(v) ==
    LET offers == SelectSeq(<<NilToPayload(v), BytesToPayload(v), JsonToPayload(v)>>,
                            LAMBDA o : o # {})
    IN  CHOOSE p \in offers[1] : TRUE

Texts == {v.data : v \in {u \in Values : u.kind = "json"}}
         \cup {AsText(v.data) : v \in {u \in Values : u.kind # "json"}}

\* FromPayloadJson: the encoding picks the converter.  A text that is no JSON does not
\* parse; bytes are taken as they are.
FromPayloadJson(p) ==
    CASE p.encoding = "binary/null"                        -> [kind |-> "null", data |-> << >>]
      [] p.encoding = "binary/plain"                       -> [kind |-> "binary", data |-> p.data]
      [] p.encoding = "json/plain" /\ p.data \in Texts     -> [kind |-> "json", data |-> p.data]
      [] OTHER                                             -> Error

\* ToProtoPayload, ToProtoJsonPayload and FromProtoPayload, which takes both forms.
ToProto(v, json) ==
    IF json THEN Plain("json/protobuf", AsText(v.data)) ELSE Plain("binary/protobuf", v.data)

FromProto(p) ==
    LET parsed == {v \in Values : v.kind = "proto" /\ p = ToProto(v, p.encoding = "json/protobuf")}
    IN  IF parsed = {} THEN Error ELSE CHOOSE v \in parsed : TRUE

-----------------------------------------------------------------------------
(***************************************************************************)
(* The codecs.  Characters of base64 are their index in kB64, '=' is 64.   *)
(* Of the int val only the low bits are ever read: 16 of them are kept.    *)
(***************************************************************************)
Pad   == 64
Width == 2^16

\* Mutant: the last bits are not moved up before they are written.
Base64EncodeLow(d) ==
    LET Step(s, c) == LET v == (s.val * 256 + c) % Width
                          b == s.bits + 8
                          n == b \div 6 + 1
                      IN  [val |-> v, bits |-> b - 6 * n,
                           out |-> s.out \o [i \in 1..n |-> (v \div 2^(b - 6 * (i - 1))) % 64]]
        s   == FoldLeft(Step, [val |-> 0, bits |-> -6, out |-> << >>], d)
        out == s.out \o IF s.bits > -6 THEN <<s.val % 64>> ELSE << >>
    IN  out \o [i \in 1..((4 - (Len(out) % 4)) % 4) |-> Pad]

\* For each byte, the sextets it completes; then the bits left over, and padding.
Base64Encode(d) ==
    LET Step(s, c) == LET v == (s.val * 256 + c) % Width
                          b == s.bits + 8
                          n == b \div 6 + 1
                      IN  [val |-> v, bits |-> b - 6 * n,
                           out |-> s.out \o [i \in 1..n |-> (v \div 2^(b - 6 * (i - 1))) % 64]]
        s   == FoldLeft(Step, [val |-> 0, bits |-> -6, out |-> << >>], d)
        out == s.out \o IF s.bits > -6 THEN <<((s.val * 256) \div 2^(s.bits + 8)) % 64>> ELSE << >>
    IN  out \o [i \in 1..((4 - (Len(out) % 4)) % 4) |-> Pad]

\* The same backwards, up to the first character that is none of kB64.
Base64Decode(d) ==
    LET Step(s, c) == LET v == (s.val * 64 + c) % Width
                          b == s.bits + 6
                      IN  IF c >= Pad \/ s.stop THEN [s EXCEPT !.stop = TRUE]
                          ELSE IF b < 0 THEN [s EXCEPT !.val = v, !.bits = b]
                          ELSE [val |-> v, bits |-> b - 8, stop |-> FALSE,
                                out |-> Append(s.out, (v \div 2^b) % 256)]
    IN  FoldLeft(Step, [val |-> 0, bits |-> -8, stop |-> FALSE, out |-> << >>], d).out

\* zlib (external): a compressed body has a header, and is inflated whole or not at all.
GzipCompress(d) == <<120>> \o d
Inflates(d, n)  == d # << >> /\ Head(d) = 120 /\ Len(d) = n + 1

\* Encode of one codec.  "custom" is one of the application's own, say an encryption,
\* with a marker of its own.
Encode(p, codec) ==
    CASE codec = "base64" -> [p EXCEPT !.data = Base64Encode(@), !.codec = "base64"]
      [] codec = "gzip"   -> [p EXCEPT !.data = GzipCompress(@), !.codec = "gzip",
                                       !.gzipLen = Len(p.data)]
      [] codec = "custom" -> [p EXCEPT !.data = [i \in DOMAIN @ |-> 255 - @[i]], !.sealed = TRUE]

\* Decode of one codec: a payload without its marker is passed through.  Gzip throws
\* for a body that does not inflate.
Decode(p, codec) ==
    CASE codec = "base64" /\ p.codec = "base64" ->
            [p EXCEPT !.data = Base64Decode(@), !.codec = "none"]
      [] codec = "gzip" /\ p.codec = "gzip" ->
            IF Inflates(p.data, p.gzipLen)
            THEN [p EXCEPT !.data = Tail(@), !.codec = "none", !.gzipLen = -1]
            ELSE Plain("error", << >>)
      [] codec = "custom" /\ p.sealed ->
            [p EXCEPT !.data = [i \in DOMAIN @ |-> 255 - @[i]], !.sealed = FALSE]
      [] OTHER -> p

\* A chain of codecs encodes in its order and decodes in reverse.
ChainEncode(codecs, p) == FoldLeft(Encode, p, codecs)
ChainDecode(codecs, p) == FoldLeft(Decode, p, Reverse(codecs))

ApplyCodecsEncode(p) == ChainEncode(conf.codecs, p)

\* Mutant: decoded in the order of encoding.
ApplyCodecsDecodeInOrder(p) == ChainDecode(Reverse(conf.codecs), p)

ApplyCodecsDecode(p) == ChainDecode(conf.codecs, p)

\* DataConverter::ToPayload and FromPayload; the receiver asks for the type it was sent.
ToPayload(v) ==
    ApplyCodecsEncode(IF v.kind = "proto" THEN ToProto(v, conf.protoJson) ELSE ToPayloadJson(v))

FromPayload(p, proto) ==
    IF proto THEN FromProto(ApplyCodecsDecode(p)) ELSE FromPayloadJson(ApplyCodecsDecode(p))

-----------------------------------------------------------------------------
(***************************************************************************)
(* The store.  PayloadStorageKey is a hash of the body with its length;    *)
(* two bodies with one key (a collision of 64 bits) are left out.          *)
(***************************************************************************)
Idle == [at |-> "idle"]

Init ==
    /\ conf \in [codecs : Chains, protoJson : BOOLEAN]
    /\ files = << >>
    /\ thread = [t \in Threads |-> Idle]
    /\ messages = {}
    /\ outcome = [t \in Threads |-> [sent |-> Error, got |-> Error, calm |-> FALSE]]
    /\ torn = {}
    /\ sends = 0 /\ faults = 0

Key(p)      == p.data
Reference(p) == [p EXCEPT !.ref = {Key(p)}, !.data = Key(p)]
Half(d)     == Len(d) \div 2
FirstPart(d)  == SubSeq(d, 1, Half(d))
SecondPart(d) == SubSeq(d, Half(d) + 1, Len(d))

SetFile(k, d) == files' = [j \in DOMAIN files \cup {k} |-> IF j = k THEN d ELSE files[j]]

\* d written into the file f from offset o: a gap before it reads as zeros.
Longer(a, b) == IF a > b THEN a ELSE b
Overlay(f, o, d) ==
    [i \in 1..Longer(Len(f), o + Len(d)) |->
        IF i > o /\ i <= o + Len(d) THEN d[i - o] ELSE IF i <= Len(f) THEN f[i] ELSE 0]

Publish(v, p) == messages' = messages \cup {[value |-> v, payload |-> p]}

\* A value is converted and sent as it is, or stored first.
Send(t) ==
    /\ thread[t].at = "idle" /\ sends < MaxSends
    /\ sends' = sends + 1
    /\ \E v \in Values :
          \/ Publish(v, ToPayload(v)) /\ UNCHANGED thread
          \/ /\ thread' = [thread EXCEPT ![t] = [at |-> "open", value |-> v, payload |-> ToPayload(v)]]
             /\ UNCHANGED messages
    /\ UNCHANGED <<conf, files, outcome, torn, faults>>

\* FilePayloadStorage::Store: the file is opened and truncated ...
StoreOpen(t) ==
    /\ thread[t].at = "open"
    /\ SetFile(Key(thread[t].payload), << >>)
    /\ thread' = [thread EXCEPT ![t].at = "write"]
    /\ UNCHANGED <<conf, messages, outcome, torn, sends, faults>>

\* Mutant: the reference is given away before the body is flushed.
StoreWriteEarly(t) ==
    /\ thread[t].at = "write"
    /\ LET p == thread[t].payload
       IN  /\ SetFile(Key(p), Overlay(files[Key(p)], 0, FirstPart(p.data)))
           /\ Publish(thread[t].value, Reference(p))
    /\ thread' = [thread EXCEPT ![t] = Idle]
    /\ UNCHANGED <<conf, outcome, torn, sends, faults>>

\* ... written ...
StoreWrite(t) ==
    /\ thread[t].at = "write"
    /\ LET p == thread[t].payload
       IN  SetFile(Key(p), Overlay(files[Key(p)], 0, FirstPart(p.data)))
    /\ thread' = [thread EXCEPT ![t].at = "flush"]
    /\ UNCHANGED <<conf, messages, outcome, torn, sends, faults>>

\* Mutant: what was not flushed is lost, and the reference returned all the same.
StoreFlushNot(t) ==
    /\ thread[t].at = "flush"
    /\ Publish(thread[t].value, Reference(thread[t].payload))
    /\ thread' = [thread EXCEPT ![t] = Idle]
    /\ UNCHANGED <<conf, files, outcome, torn, sends, faults>>

\* ... and flushed; the reference is returned.
StoreFlush(t) ==
    /\ thread[t].at = "flush"
    /\ LET p == thread[t].payload
       IN  /\ SetFile(Key(p), Overlay(files[Key(p)], Half(p.data), SecondPart(p.data)))
           /\ Publish(thread[t].value, Reference(p))
    /\ thread' = [thread EXCEPT ![t] = Idle]
    /\ UNCHANGED <<conf, outcome, torn, sends, faults>>

\* Store throws (no directory, no space), or its process dies: the file stays as it is.
StoreCut(t) ==
    /\ thread[t].at \in {"open", "write", "flush"} /\ faults < MaxFaults
    /\ faults' = faults + 1
    /\ torn' = torn \cup {k \in {Key(thread[t].payload)} : thread[t].at # "open"}
    /\ thread' = [thread EXCEPT ![t] = Idle]
    /\ UNCHANGED <<conf, files, messages, outcome, sends>>

Storing(k) == \E t \in Threads : thread[t].at \in {"write", "flush"} /\ Key(thread[t].payload) = k

\* A file is removed, or the receiver looks into another directory; nobody has it open.
FileLost ==
    /\ faults < MaxFaults
    /\ faults' = faults + 1
    /\ \E k \in DOMAIN files :
          /\ ~Storing(k)
          /\ \A t \in Threads : thread[t].at = "read" => thread[t].message.payload.data # k
          /\ files' = [j \in DOMAIN files \ {k} |-> files[j]]
          /\ torn' = torn \cup {k}
    /\ UNCHANGED <<conf, thread, messages, outcome, sends>>

\* calm is a ghost: no Store of the body was under way, and none had been cut short,
\* at the moments its file was read.
Calm(k) == ~Storing(k) /\ k \notin torn

Decoded(t, m, p, calm) ==
    outcome' = [outcome EXCEPT ![t] =
        [sent |-> m.value, got |-> FromPayload(p, m.value.kind = "proto"), calm |-> calm]]

\* Resolve: a payload without a reference is passed through, one whose file is not
\* there throws; else the file is read.
Resolve(t) ==
    /\ thread[t].at = "idle"
    /\ \E m \in messages :
          \/ m.payload.ref = {} /\ Decoded(t, m, m.payload, TRUE) /\ UNCHANGED thread
          \/ /\ m.payload.ref # {} /\ m.payload.data \notin DOMAIN files
             /\ outcome' = [outcome EXCEPT ![t] = [sent |-> m.value, got |-> Error,
                                                   calm |-> Calm(m.payload.data)]]
             /\ UNCHANGED thread
          \/ /\ m.payload.ref # {} /\ m.payload.data \in DOMAIN files
             /\ LET k == m.payload.data
                    f == files[k]
                IN  thread' = [thread EXCEPT ![t] =
                        [at |-> "read", message |-> m, calm |-> Calm(k),
                         head |-> SubSeq(f, 1, IF Half(k) < Len(f) THEN Half(k) ELSE Len(f))]]
             /\ UNCHANGED outcome
    /\ UNCHANGED <<conf, files, messages, torn, sends, faults>>

\* The rest of the file, from where the reading had come to.
ResolveRead(t) ==
    /\ thread[t].at = "read"
    /\ LET m == thread[t].message
           k == m.payload.data
           f == files[k]
           n == Len(thread[t].head)
           d == IF n < Half(k) THEN thread[t].head ELSE thread[t].head \o SubSeq(f, n + 1, Len(f))
       IN  Decoded(t, m, [m.payload EXCEPT !.data = d, !.ref = {}], thread[t].calm /\ Calm(k))
    /\ thread' = [thread EXCEPT ![t] = Idle]
    /\ UNCHANGED <<conf, files, messages, torn, sends, faults>>

-----------------------------------------------------------------------------
Next ==
    \/ \E t \in Threads :
          \/ Send(t) \/ StoreOpen(t) \/ StoreWrite(t) \/ StoreFlush(t) \/ StoreCut(t)
          \/ Resolve(t) \/ ResolveRead(t)
    \/ FileLost

Spec == Init /\ [][Next]_vars

-----------------------------------------------------------------------------
(***************************************************************************)
(* Properties.                                                             *)
(***************************************************************************)
\* Every variable holds a value of its type; bodies are bytes.
TypeOK ==
    /\ conf \in [codecs : Chains, protoJson : BOOLEAN]
    /\ \A k \in DOMAIN files : files[k] \in Seq(Byte)
    /\ \A t \in Threads : thread[t].at \in {"idle", "open", "write", "flush", "read"}
    /\ \A m \in messages : m.value \in Values /\ m.payload.data \in Seq(Byte)
    /\ \A t \in Threads : outcome[t].got.kind \in Kinds \cup {"error"}
    /\ sends \in 0..MaxSends /\ faults \in 0..MaxFaults

\* A receiver gets the value that was sent, for every kind of value and every chain
\* of codecs with markers of their own, unless a Store of the same body got in its way.
RoundTrip ==
    \A t \in Threads : outcome[t].calm => outcome[t].got = outcome[t].sent

\* "the resolved payload decodes identically": through the store a receiver gets what it
\* would have got from the payload itself, though its two reads and the Stores of other
\* threads come in any order, unless one was under way, or cut short, when it read.
ResolvesAlike ==
    \A t \in Threads : outcome[t].calm =>
        outcome[t].got = FromPayload(ToPayload(outcome[t].sent), outcome[t].sent.kind = "proto")

\* "Resolve a reference payload produced by Store() back to its body": a receiver gets
\* the value that was sent, or an exception.
ResolvesOrThrows ==
    \A t \in Threads : outcome[t].got \in {outcome[t].sent, Error}

\* The body of every reference that was given away is in the store, unless another
\* Store of the same body is under way, or was cut short.
ReferencesResolve ==
    \A m \in messages : m.payload.ref # {} =>
        LET k == m.payload.data
        IN  Storing(k) \/ k \in torn \/ (k \in DOMAIN files /\ files[k] = k)

\* RFC 4648: six bits of the body after the other, most significant first, the last
\* group filled with zeros and '='.  What a peer in another language reads.
Bit(d, n) == IF n \div 8 < Len(d) THEN (d[n \div 8 + 1] \div 2^(7 - (n % 8))) % 2 ELSE 0
Standard(d) ==
    [j \in 1..(4 * ((Len(d) + 2) \div 3)) |->
        IF 6 * (j - 1) >= 8 * Len(d) THEN Pad
        ELSE LET b(i) == Bit(d, 6 * (j - 1) + i)
             IN  32 * b(0) + 16 * b(1) + 8 * b(2) + 4 * b(3) + 2 * b(4) + b(5)]
Base64IsStandard ==
    \A m \in messages : conf.codecs = <<"base64">> /\ m.value.kind \in {"json", "binary"} =>
        m.payload.data = Standard(m.value.data)
=============================================================================
