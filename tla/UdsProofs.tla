------------------------------ MODULE UdsProofs ------------------------------
(***************************************************************************)
(* What holds of Uds for every length of header, message and buffer, and   *)
(* any number of calls.                                                    *)
(***************************************************************************)
EXTENDS Uds, SequenceTheorems, TLAPS

-----------------------------------------------------------------------------
(* Streams.                                                                *)

LEMMA MinOfTwo ==
  ASSUME NEW a \in Int, NEW b \in Int
  PROVE  Min({a, b}) \in Int /\ Min({a, b}) <= a /\ Min({a, b}) <= b
         /\ (Min({a, b}) = a \/ Min({a, b}) = b)
<1>1. \E x \in {a, b} : \A y \in {a, b} : x <= y
  OBVIOUS
<1>2. QED BY <1>1 DEF Min

(* The rest of a stream when n of its units have been taken. *)
LEMMA TakeUnits ==
  ASSUME NEW s \in Seq(Unit), NEW n \in 0..Len(s)
  PROVE  /\ SubSeq(s, n + 1, Len(s)) \in Seq(Unit)
         /\ Len(SubSeq(s, n + 1, Len(s))) = Len(s) - n
         /\ \A i \in 1..(Len(s) - n) : SubSeq(s, n + 1, Len(s))[i] = s[n + i]
<1>1. n + 1 \in 1..(Len(s) + 1) /\ Len(s) \in 0..Len(s)
  OBVIOUS
<1>2. QED BY <1>1, SubSeqProperties

(* Units added to a stream. *)
LEMMA AddUnits ==
  ASSUME NEW s \in Seq(Unit), NEW k \in Nat, NEW units, units \in [1..k -> Unit]
  PROVE  /\ s \o units \in Seq(Unit)
         /\ Len(s \o units) = Len(s) + k
         /\ \A i \in 1..Len(s) : (s \o units)[i] = s[i]
         /\ \A i \in 1..k : (s \o units)[Len(s) + i] = units[i]
<1>1. units \in Seq(Unit) /\ Len(units) = k
  BY SeqDef
<1>2. /\ s \o units \in Seq(Unit)
      /\ Len(s \o units) = Len(s) + k
      /\ \A i \in 1..(Len(s) + k) :
           (s \o units)[i] = IF i <= Len(s) THEN s[i] ELSE units[i - Len(s)]
  BY <1>1, ConcatProperties
<1>3. Len(s) \in Nat
  OBVIOUS
<1>4. \A i \in 1..Len(s) : (s \o units)[i] = s[i]
  BY <1>2, <1>3
<1>5. \A i \in 1..k : (s \o units)[Len(s) + i] = units[i]
  <2>1. TAKE i \in 1..k
  <2>2. Len(s) + i \in 1..(Len(s) + k) /\ ~(Len(s) + i <= Len(s)) /\ Len(s) + i - Len(s) = i
    BY <1>3
  <2>3. QED BY <1>2, <2>2
<1>6. QED BY <1>2, <1>4, <1>5

-----------------------------------------------------------------------------
(* Types, and the place in the part that is being moved.                   *)

CursorOf(p) ==
  /\ pc[p] = "send" => moved[p] < size[p]
  /\ pc[p] = "header" => moved[p] < HdrLen
  /\ pc[p] = "body" => moved[p] < size[p] - HdrLen
  /\ pc[p] \notin {"send", "header", "body"} => moved[p] = 0

Cursor == \A p \in Ends : CursorOf(p)

Typed == TypeOK /\ Cursor

(* The part of a message that a recv of p fills, and where p goes then. *)
Part(p, part, next) ==
  \/ part = "header" /\ next = "size"
  \/ part = "body" /\ next = IF p = "server" THEN "send" ELSE "count"

LEMMA ReceiveEffect ==
  ASSUME Typed, NEW p \in Ends, NEW part, NEW next, Part(p, part, next), Receive(p, part, next)
  PROVE  \E n \in 1..Len(stream[p]) :
           LET start == Offset(part) + moved[p]
               complete == p \notin looping \/ moved[p] + n = Length(p, part)
           IN  /\ pc[p] = part
               /\ n <= Length(p, part) - moved[p]
               /\ n = Length(p, part) - moved[p] \/ n = Len(stream[p])
               /\ start + n <= MaxLen
               /\ stream' = [stream EXCEPT ![p] = SubSeq(stream[p], n + 1, Len(stream[p]))]
               /\ buf' = [buf EXCEPT ![p] =
                            [i \in 1..MaxLen |->
                               IF i \in (start + 1)..(start + n)
                               THEN stream[p][i - start] ELSE buf[p][i]]]
               /\ pc' = [pc EXCEPT ![p] = IF complete THEN next ELSE part]
               /\ moved' = [moved EXCEPT ![p] = IF complete THEN 0 ELSE moved[p] + n]
               /\ UNCHANGED <<setting, path, connected, closed, reset, size, expired, ops>>
<1> DEFINE n == Min({Length(p, part) - moved[p], Len(stream[p])})
<1>1. /\ stream[p] \in Seq(Unit) /\ Len(stream[p]) \in Nat
      /\ moved[p] \in Nat
      /\ size[p] \in (HdrLen + 1)..MaxLen
      /\ buf[p] \in [1..MaxLen -> Unit]
  BY DEF Typed, TypeOK
<1>2. /\ pc[p] = part
      /\ stream[p] # <<>>
  BY DEF Receive
<1>3. Len(stream[p]) > 0
  BY <1>1, <1>2, EmptySeq
<1>4. Length(p, part) \in Nat /\ moved[p] < Length(p, part) /\ Offset(part) + Length(p, part) <= MaxLen
      /\ Offset(part) \in Nat
  BY <1>1, <1>2, UdsAssumption DEF Typed, Cursor, CursorOf, Length, Offset, Part
<1>5. n \in 1..Len(stream[p]) /\ n <= Length(p, part) - moved[p]
      /\ (n = Length(p, part) - moved[p] \/ n = Len(stream[p]))
  <2>1. /\ Length(p, part) - moved[p] \in Int
        /\ Len(stream[p]) \in Int
    BY <1>1, <1>4
  <2>2. /\ n \in Int /\ n <= Length(p, part) - moved[p] /\ n <= Len(stream[p])
        /\ (n = Length(p, part) - moved[p] \/ n = Len(stream[p]))
    BY <2>1, MinOfTwo
  <2> HIDE DEF n
  <2>3. QED BY <1>1, <1>3, <1>4, <2>2
<1>6. Offset(part) + moved[p] + n <= MaxLen
  <2> HIDE DEF n
  <2> QED BY <1>1, <1>4, <1>5, UdsAssumption
<1>7. /\ stream' = [stream EXCEPT ![p] = SubSeq(stream[p], n + 1, Len(stream[p]))]
      /\ buf' = [buf EXCEPT ![p] =
                   [i \in 1..MaxLen |->
                      IF i \in (Offset(part) + moved[p] + 1)..(Offset(part) + moved[p] + n)
                      THEN stream[p][i - (Offset(part) + moved[p])] ELSE buf[p][i]]]
      /\ pc' = [pc EXCEPT ![p] =
                  IF p \notin looping \/ moved[p] + n = Length(p, part) THEN next ELSE part]
      /\ moved' = [moved EXCEPT ![p] =
                     IF p \notin looping \/ moved[p] + n = Length(p, part) THEN 0 ELSE moved[p] + n]
      /\ UNCHANGED <<setting, path, connected, closed, reset, size, expired, ops>>
  <2>1. stream[p] = stream[p] /\ p \in DOMAIN stream /\ p \in DOMAIN buf
    BY DEF Typed, TypeOK
  <2> QED BY <2>1 DEF Receive
<1> HIDE DEF n
<1>8. QED BY <1>2, <1>5, <1>6, <1>7

(* The k units that p sends next. *)
Sending(p, k) == [i \in 1..k |-> [buf[p][moved[p] + i] EXCEPT !.from = p]]

(* p sends them to q, and goes on at next once the message is whole. *)
Sent(p, q, next, k) ==
  LET whole == moved[p] + k = size[p]
  IN  /\ q \notin cut => whole
      /\ Sending(p, k) \in [1..k -> Unit]
      /\ stream' = [stream EXCEPT ![q] = stream[q] \o Sending(p, k)]
      /\ pc' = [pc EXCEPT ![p] = IF whole THEN next ELSE "send"]
      /\ moved' = [moved EXCEPT ![p] = IF whole THEN 0 ELSE moved[p] + k]

LEMMA SendEffect ==
  ASSUME Typed, NEW p \in Ends, NEW next, Send(p, next)
  PROVE  /\ pc[p] = "send"
         /\ ~closed[Other(p)]
         /\ \E k \in 1..(size[p] - moved[p]) : Sent(p, Other(p), next, k)
         /\ UNCHANGED <<setting, path, connected, closed, reset, buf, size, expired, ops>>
<1>1. /\ moved[p] \in Nat
      /\ size[p] \in (HdrLen + 1)..MaxLen
      /\ buf[p] \in [1..MaxLen -> Unit]
      /\ Other(p) \in Ends /\ Other(p) \in DOMAIN stream
  BY DEF Typed, TypeOK, Other, Ends
<1>2. /\ pc[p] = "send"
      /\ ~closed[Other(p)]
      /\ UNCHANGED <<setting, path, connected, closed, reset, buf, size, expired, ops>>
  BY DEF Send
<1>3. moved[p] < size[p]
  BY <1>2 DEF Typed, Cursor, CursorOf
<1>4. PICK k \in Pieces(p, size[p] - moved[p]) :
        /\ stream' = [stream EXCEPT ![Other(p)] = stream[Other(p)] \o Sending(p, k)]
        /\ pc' = [pc EXCEPT ![p] = IF moved[p] + k = size[p] THEN next ELSE "send"]
        /\ moved' = [moved EXCEPT ![p] = IF moved[p] + k = size[p] THEN 0 ELSE moved[p] + k]
  BY <1>1 DEF Send, Sending
<1>5. k \in 1..(size[p] - moved[p]) /\ (Other(p) \notin cut => moved[p] + k = size[p])
  BY <1>1, <1>3, UdsAssumption DEF Pieces
<1>6. Sending(p, k) \in [1..k -> Unit]
  <2>1. ASSUME NEW i \in 1..k
        PROVE  [buf[p][moved[p] + i] EXCEPT !.from = p] \in Unit
    <3>1. moved[p] + i \in 1..MaxLen
      <4>1. size[p] \in Nat /\ size[p] <= MaxLen /\ MaxLen \in Nat /\ moved[p] \in Nat
        BY <1>1, UdsAssumption
      <4>2. i \in Nat /\ i >= 1 /\ i <= size[p] - moved[p]
        BY <1>5, <4>1
      <4>3. QED BY <4>1, <4>2
    <3>2. buf[p][moved[p] + i] \in Unit
      BY <1>1, <3>1
    <3>3. QED BY <3>2 DEF Unit
  <2>2. QED BY <2>1 DEF Sending
<1>7. Sent(p, Other(p), next, k)
  BY <1>4, <1>5, <1>6 DEF Sent
<1>8. QED BY <1>2, <1>5, <1>7

-----------------------------------------------------------------------------

LEMMA ReceiveTyped ==
  ASSUME Typed, NEW p \in Ends, NEW part, NEW next, Part(p, part, next), Receive(p, part, next)
  PROVE  Typed'
<1>1. PICK n \in 1..Len(stream[p]) :
        LET start == Offset(part) + moved[p]
            complete == p \notin looping \/ moved[p] + n = Length(p, part)
        IN  /\ pc[p] = part
            /\ n <= Length(p, part) - moved[p]
            /\ start + n <= MaxLen
            /\ stream' = [stream EXCEPT ![p] = SubSeq(stream[p], n + 1, Len(stream[p]))]
            /\ buf' = [buf EXCEPT ![p] =
                         [i \in 1..MaxLen |->
                            IF i \in (start + 1)..(start + n)
                            THEN stream[p][i - start] ELSE buf[p][i]]]
            /\ pc' = [pc EXCEPT ![p] = IF complete THEN next ELSE part]
            /\ moved' = [moved EXCEPT ![p] = IF complete THEN 0 ELSE moved[p] + n]
            /\ UNCHANGED <<setting, path, connected, closed, reset, size, expired, ops>>
  BY ReceiveEffect
<1>2. /\ stream[p] \in Seq(Unit) /\ Len(stream[p]) \in Nat
      /\ moved[p] \in Nat
      /\ size[p] \in (HdrLen + 1)..MaxLen
      /\ buf[p] \in [1..MaxLen -> Unit]
      /\ Offset(part) \in Nat
  BY UdsAssumption DEF Typed, TypeOK, Offset
<1>3. stream' \in [Ends -> Seq(Unit)]
  <2>1. n \in 0..Len(stream[p])
    OBVIOUS
  <2>2. SubSeq(stream[p], n + 1, Len(stream[p])) \in Seq(Unit)
    BY <1>2, <2>1, TakeUnits
  <2>3. stream \in [Ends -> Seq(Unit)]
    BY DEF Typed, TypeOK
  <2>4. QED BY <1>1, <2>2, <2>3
<1>4. buf' \in [Ends -> [1..MaxLen -> Unit]]
  <2> DEFINE start == Offset(part) + moved[p]
             new == [i \in 1..MaxLen |->
                       IF i \in (start + 1)..(start + n) THEN stream[p][i - start] ELSE buf[p][i]]
  <2>1. ASSUME NEW i \in (start + 1)..(start + n) PROVE stream[p][i - start] \in Unit
    <3>1. i - start \in 1..Len(stream[p])
      BY <1>2
    <3>2. QED BY <1>2, <3>1
  <2>2. new \in [1..MaxLen -> Unit]
    BY <1>2, <2>1
  <2>3. buf' = [buf EXCEPT ![p] = new]
    BY <1>1
  <2> HIDE DEF new
  <2>4. buf \in [Ends -> [1..MaxLen -> Unit]]
    BY DEF Typed, TypeOK
  <2>5. QED BY <2>2, <2>3, <2>4
<1>5. pc[p] = part /\ moved[p] + n <= Length(p, part) /\ Length(p, part) \in 1..MaxLen
  <2>1. HdrLen \in 1..MaxLen /\ size[p] - HdrLen \in 1..MaxLen
    BY <1>2, UdsAssumption
  <2>2. Length(p, part) \in 1..MaxLen
    BY <2>1 DEF Length
  <2>3. pc[p] = part /\ n <= Length(p, part) - moved[p]
    BY <1>1
  <2>4. MaxLen \in Nat /\ n \in Nat /\ moved[p] \in Nat
    BY <1>2, UdsAssumption
  <2>5. QED BY <2>2, <2>3, <2>4
<1>6. moved' \in [Ends -> 0..MaxLen]
  <2>1. moved[p] + n \in 0..MaxLen /\ 0 \in 0..MaxLen
    BY <1>2, <1>5, UdsAssumption
  <2>2. QED BY <1>1, <2>1 DEF Typed, TypeOK
<1>7. /\ pc' \in [Ends -> ServerPC \union ClientPC]
      /\ pc'["server"] \in ServerPC
      /\ pc'["client"] \in ClientPC
  BY <1>1 DEF Typed, TypeOK, Part, ServerPC, ClientPC, Ends
<1>8. TypeOK'
  BY <1>1, <1>3, <1>4, <1>6, <1>7 DEF Typed, TypeOK, setting
<1>9. Cursor'
  <2>1. \A q \in Ends : q # p => pc'[q] = pc[q] /\ moved'[q] = moved[q]
    BY <1>1 DEF Typed, TypeOK
  <2>2. size' = size
    BY <1>1
  <2>3. p \notin looping \/ moved[p] + n = Length(p, part) => pc'[p] = next /\ moved'[p] = 0
    BY <1>1 DEF Typed, TypeOK
  <2>4. ~(p \notin looping \/ moved[p] + n = Length(p, part))
          => pc'[p] = part /\ moved'[p] = moved[p] + n
    BY <1>1 DEF Typed, TypeOK
  <2>5. moved[p] + n # Length(p, part) => moved[p] + n < Length(p, part)
    BY <1>2, <1>5
  <2>6. \A q \in Ends : q # p => CursorOf(q)'
    BY <2>1, <2>2 DEF Typed, Cursor, CursorOf
  <2>7. CASE p \notin looping \/ moved[p] + n = Length(p, part)
    <3>1. pc'[p] = next /\ moved'[p] = 0 /\ next \in {"size", "send", "count"}
      BY <2>3, <2>7 DEF Part
    <3>2. size'[p] \in Nat /\ size'[p] > 0
      BY <1>2, <2>2, UdsAssumption
    <3>3. CursorOf(p)'
      BY <3>1, <3>2 DEF CursorOf
    <3>4. QED BY <2>6, <3>3 DEF Cursor
  <2>8. CASE ~(p \notin looping \/ moved[p] + n = Length(p, part))
    <3>1. CursorOf(p)'
      BY <2>2, <2>4, <2>5, <2>8 DEF CursorOf, Part, Length
    <3>2. QED BY <2>6, <3>1 DEF Cursor
  <2>9. QED BY <2>6, <2>7, <2>8 DEF Cursor
<1>10. QED BY <1>8, <1>9 DEF Typed

LEMMA ReceiveEndTyped ==
  ASSUME Typed, NEW p \in Ends, NEW part, NEW next, Part(p, part, next), ReceiveEnd(p, part, next)
  PROVE  Typed'
<1>1. size[p] > HdrLen /\ size[p] \in Nat /\ p \in DOMAIN pc /\ p \in DOMAIN moved
  BY UdsAssumption DEF Typed, TypeOK
<1>2. TypeOK'
  <2>1. PICK to \in {End(p), next} : pc' = [pc EXCEPT ![p] = to]
    BY DEF ReceiveEnd, Goto
  <2>2. to \in IF p = "server" THEN ServerPC ELSE ClientPC
    BY DEF End, Part, ServerPC, ClientPC
  <2>3. /\ pc' \in [Ends -> ServerPC \union ClientPC]
        /\ pc'["server"] \in ServerPC
        /\ pc'["client"] \in ClientPC
    BY <2>1, <2>2 DEF Typed, TypeOK, Ends
  <2>4. reset' \in [Ends -> BOOLEAN]
    BY DEF Typed, TypeOK, ReceiveEnd
  <2>5. moved' \in [Ends -> 0..MaxLen]
    <3>1. 0 \in 0..MaxLen /\ moved' = [moved EXCEPT ![p] = 0]
      BY UdsAssumption DEF ReceiveEnd
    <3>2. QED BY <3>1 DEF Typed, TypeOK
  <2>6. UNCHANGED <<setting, path, connected, stream, closed, buf, size, expired, ops>>
    BY DEF ReceiveEnd
  <2>7. QED BY <2>3, <2>4, <2>5, <2>6 DEF Typed, TypeOK, setting
<1>3. Cursor'
  <2>1. /\ pc'[p] \in {"close", "free", "size", "send", "count"}
        /\ moved'[p] = 0
        /\ size' = size
        /\ \A q \in Ends : q # p => pc'[q] = pc[q] /\ moved'[q] = moved[q]
    BY <1>1 DEF ReceiveEnd, Goto, Part, End, Typed, TypeOK
  <2>2. \A q \in Ends : q # p => CursorOf(q)'
    BY <2>1 DEF Typed, Cursor, CursorOf
  <2>3. CursorOf(p)'
    BY <1>1, <2>1, UdsAssumption DEF CursorOf
  <2>4. QED BY <2>2, <2>3 DEF Cursor
<1>4. QED BY <1>2, <1>3 DEF Typed

LEMMA CheckSizeTyped ==
  ASSUME Typed, NEW p \in Ends, CheckSize(p)
  PROVE  Typed'
<1>1. MsgLen \in (HdrLen + 1)..MaxLen
  BY UdsAssumption
<1>2. size' \in [Ends -> (HdrLen + 1)..MaxLen]
  <2>1. size' = size \/ \E n \in (HdrLen + 1)..MaxLen : size' = [size EXCEPT ![p] = n]
    BY <1>1 DEF CheckSize
  <2>2. QED BY <2>1 DEF Typed, TypeOK
<1>3. pc' = [pc EXCEPT ![p] = "body"] \/ pc' = [pc EXCEPT ![p] = End(p)]
  BY DEF CheckSize, Goto
<1>4. pc[p] = "size" /\ UNCHANGED <<setting, socket, buf, moved, expired, ops>>
  BY DEF CheckSize, Goto
<1>5. TypeOK'
  BY <1>2, <1>3, <1>4 DEF Typed, TypeOK, End, ServerPC, ClientPC, Ends, setting, socket
<1>6. \A q \in Ends : q # p => size'[q] = size[q]
  BY DEF Typed, TypeOK, CheckSize
<1>7. size'[p] > HdrLen /\ size'[p] \in Nat
  BY <1>2, UdsAssumption
<1>8. Cursor'
  <2>1. /\ pc'[p] \in {"close", "free", "body"}
        /\ moved'[p] = moved[p] /\ moved[p] = 0
        /\ \A q \in Ends : q # p => pc'[q] = pc[q] /\ moved'[q] = moved[q]
    BY <1>3, <1>4 DEF End, Typed, TypeOK, Cursor, CursorOf
  <2>2. \A q \in Ends : q # p => CursorOf(q)'
    BY <1>6, <2>1 DEF Typed, Cursor, CursorOf
  <2>3. CursorOf(p)'
    BY <1>7, <2>1, UdsAssumption DEF CursorOf
  <2>4. QED BY <2>2, <2>3 DEF Cursor
<1>9. QED BY <1>5, <1>8 DEF Typed

LEMMA SendTyped ==
  ASSUME Typed, NEW p \in Ends, NEW next, Send(p, next),
         next = IF p = "server" THEN "loop" ELSE "header"
  PROVE  Typed'
<1>1. PICK k \in 1..(size[p] - moved[p]) :
        /\ Sending(p, k) \in [1..k -> Unit]
        /\ stream' = [stream EXCEPT ![Other(p)] = stream[Other(p)] \o Sending(p, k)]
        /\ pc' = [pc EXCEPT ![p] = IF moved[p] + k = size[p] THEN next ELSE "send"]
        /\ moved' = [moved EXCEPT ![p] = IF moved[p] + k = size[p] THEN 0 ELSE moved[p] + k]
  <2>1. PICK k \in 1..(size[p] - moved[p]) : Sent(p, Other(p), next, k)
    BY SendEffect
  <2>2. QED BY <2>1 DEF Sent
<1>2. pc[p] = "send" /\ UNCHANGED <<setting, path, connected, closed, reset, buf, size, expired, ops>>
  BY SendEffect
<1>3. moved[p] \in Nat /\ size[p] \in (HdrLen + 1)..MaxLen /\ Other(p) \in Ends
  BY DEF Typed, TypeOK, Other, Ends
<1>4. stream' \in [Ends -> Seq(Unit)]
  <2>1. stream \in [Ends -> Seq(Unit)]
    BY DEF Typed, TypeOK
  <2>2. stream[Other(p)] \o Sending(p, k) \in Seq(Unit)
    BY <1>1, <1>3, <2>1, AddUnits
  <2>3. QED BY <1>1, <2>1, <2>2
<1>5. moved[p] + k \in 0..MaxLen /\ 0 \in 0..MaxLen
  BY <1>3, UdsAssumption
<1>6. TypeOK'
  BY <1>1, <1>2, <1>4, <1>5 DEF Typed, TypeOK, ServerPC, ClientPC, Ends, setting
<1>7. moved[p] + k # size[p] => moved[p] + k < size[p]
  BY <1>3, UdsAssumption
<1>8. Cursor'
  BY <1>1, <1>2, <1>7, UdsAssumption DEF Typed, TypeOK, Cursor, CursorOf
<1>9. QED BY <1>6, <1>8 DEF Typed

(* The steps that move no data: p goes from one place to another. *)
LEMMA MoveTyped ==
  ASSUME Typed, NEW p \in Ends, NEW q, pc' = [pc EXCEPT ![p] = q],
         q \in IF p = "server" THEN ServerPC ELSE ClientPC,
         moved' = [moved EXCEPT ![p] = 0], size' = size, setting' = setting,
         path' \in {"absent", "stale", "live"}, connected' \in BOOLEAN,
         stream' \in [Ends -> Seq(Unit)], closed' \in [Ends -> BOOLEAN],
         reset' \in [Ends -> BOOLEAN], buf' \in [Ends -> [1..MaxLen -> Unit]],
         expired' \in [Ends -> BOOLEAN], ops' \in Nat
  PROVE  Typed'
<1>1. TypeOK'
  BY UdsAssumption DEF Typed, TypeOK, setting, ServerPC, ClientPC, Ends
<1>2. Cursor'
  <2>1. size[p] \in (HdrLen + 1)..MaxLen
    BY DEF Typed, TypeOK
  <2>2. moved'[p] = 0 /\ size'[p] > HdrLen /\ size'[p] \in Nat
    BY <2>1, UdsAssumption DEF Typed, TypeOK
  <2>3. CursorOf(p)'
    BY <2>2, UdsAssumption DEF CursorOf
  <2>4. \A r \in Ends : r # p => CursorOf(r)'
    BY DEF Typed, TypeOK, Cursor, CursorOf
  <2>5. QED BY <2>3, <2>4 DEF Cursor
<1>3. QED BY <1>1, <1>2 DEF Typed

(* Outside of a part that is being moved, nothing of it is moved. *)
LEMMA AtRest ==
  ASSUME Typed, NEW p \in Ends, pc[p] \notin {"send", "header", "body"}
  PROVE  moved = [moved EXCEPT ![p] = 0]
<1>1. moved[p] = 0
  BY DEF Typed, Cursor, CursorOf
<1>2. QED BY <1>1 DEF Typed, TypeOK

LEMMA HangupTypes ==
  ASSUME TypeOK, NEW p \in Ends, Hangup(p)
  PROVE  /\ stream' \in [Ends -> Seq(Unit)]
         /\ closed' \in [Ends -> BOOLEAN]
         /\ reset' \in [Ends -> BOOLEAN]
<1>1. <<>> \in Seq(Unit)
  OBVIOUS
<1>2. QED BY <1>1 DEF TypeOK, Hangup

(* One step of the system, as the steps of one process. *)
LEMMA Steps ==
  ASSUME Next
  PROVE  \/ Listen \/ Connect \/ Accept \/ CloseClientFd \/ FreeServer \/ FreeClient
         \/ ServerLoop \/ ClientStop \/ ClientCompose \/ Count
         \/ \E p \in Ends :
              \/ Send(p, IF p = "server" THEN "loop" ELSE "header")
              \/ SendFails(p)
              \/ CheckSize(p)
              \/ \E part, next : Part(p, part, next) /\ Receive(p, part, next)
              \/ \E part, next : Part(p, part, next) /\ ReceiveEnd(p, part, next)
              \/ Expire(p)
<1>1. "server" \in Ends /\ "client" \in Ends
  BY DEF Ends
<1>2. ASSUME NEW p \in Ends, ReadMessage(p, IF p = "server" THEN "send" ELSE "count")
      PROVE  \/ CheckSize(p)
             \/ \E part, next : Part(p, part, next) /\ Receive(p, part, next)
             \/ \E part, next : Part(p, part, next) /\ ReceiveEnd(p, part, next)
  BY <1>2 DEF ReadMessage, Read, Part
<1>3. CASE ReadMessage("server", "send")
  BY <1>1, <1>2, <1>3
<1>4. CASE ReadMessage("client", "count")
  BY <1>1, <1>2, <1>4
<1>5. QED BY <1>1, <1>3, <1>4 DEF Next, Server, Serve, Client

LEMMA StepTyped ==
  ASSUME Typed, [Next]_vars
  PROVE  Typed'
<1>0. TypeOK /\ "server" \in Ends /\ "client" \in Ends
  BY DEF Typed, Ends
<1>1. CASE Listen
  <2>1. pc' = [pc EXCEPT !["server"] = "accept"] /\ pc["server"] = "listen"
    BY <1>1 DEF Listen, Goto
  <2>2. moved' = [moved EXCEPT !["server"] = 0]
    BY <1>0, <1>1, <2>1, AtRest DEF Listen, memory
  <2>3. QED BY <1>0, <1>1, <2>1, <2>2, MoveTyped DEF Listen, memory, TypeOK, ServerPC
<1>2. CASE Connect
  <2>1. /\ pc' = [pc EXCEPT !["client"] = IF path = "live" THEN "loop" ELSE "failed"]
        /\ pc["client"] = "connect"
    BY <1>2 DEF Connect, Goto
  <2>2. moved' = [moved EXCEPT !["client"] = 0]
    BY <1>0, <1>2, <2>1, AtRest DEF Connect, memory
  <2>3. QED BY <1>0, <1>2, <2>1, <2>2, MoveTyped DEF Connect, memory, TypeOK, ClientPC
<1>3. CASE Accept
  <2>1. pc' = [pc EXCEPT !["server"] = "loop"] /\ pc["server"] = "accept"
    BY <1>3 DEF Accept, Goto
  <2>2. moved' = [moved EXCEPT !["server"] = 0]
    BY <1>0, <1>3, <2>1, AtRest DEF Accept, memory
  <2>3. QED BY <1>0, <1>3, <2>1, <2>2, MoveTyped DEF Accept, memory, socket, TypeOK, ServerPC
<1>4. CASE CloseClientFd
  <2>1. pc' = [pc EXCEPT !["server"] = "free"] /\ pc["server"] = "close"
    BY <1>4 DEF CloseClientFd, Goto
  <2>2. moved' = [moved EXCEPT !["server"] = 0]
    BY <1>0, <1>4, <2>1, AtRest DEF CloseClientFd, memory
  <2>3. Hangup("server")
    BY <1>4 DEF CloseClientFd
  <2>4. QED BY <1>0, <1>4, <2>1, <2>2, <2>3, HangupTypes, MoveTyped
             DEF CloseClientFd, memory, TypeOK, ServerPC
<1>5. CASE FreeServer
  <2>1. pc' = [pc EXCEPT !["server"] = "done"] /\ pc["server"] = "free"
    BY <1>5 DEF FreeServer, Goto
  <2>2. moved' = [moved EXCEPT !["server"] = 0]
    BY <1>0, <1>5, <2>1, AtRest DEF FreeServer, memory
  <2>3. QED BY <1>0, <1>5, <2>1, <2>2, MoveTyped DEF FreeServer, memory, TypeOK, ServerPC
<1>6. CASE FreeClient
  <2>1. pc' = [pc EXCEPT !["client"] = "done"] /\ pc["client"] = "free"
    BY <1>6 DEF FreeClient, Goto
  <2>2. moved' = [moved EXCEPT !["client"] = 0]
    BY <1>0, <1>6, <2>1, AtRest DEF FreeClient, memory
  <2>3. Hangup("client")
    BY <1>6 DEF FreeClient
  <2>4. QED BY <1>0, <1>6, <2>1, <2>2, <2>3, HangupTypes, MoveTyped
             DEF FreeClient, memory, TypeOK, ClientPC
<1>7. CASE ServerLoop
  <2>1. /\ pc' = [pc EXCEPT !["server"] = IF expired["server"] THEN "close" ELSE "header"]
        /\ pc["server"] = "loop"
    BY <1>7 DEF ServerLoop, Goto
  <2>2. moved' = [moved EXCEPT !["server"] = 0]
    BY <1>0, <1>7, <2>1, AtRest DEF ServerLoop, memory
  <2>3. QED BY <1>0, <1>7, <2>1, <2>2, MoveTyped DEF ServerLoop, memory, socket, TypeOK, ServerPC
<1>8. CASE ClientStop
  <2>1. pc' = [pc EXCEPT !["client"] = "free"] /\ pc["client"] = "loop"
    BY <1>8 DEF ClientStop, Goto
  <2>2. moved' = [moved EXCEPT !["client"] = 0]
    BY <1>0, <1>8, <2>1, AtRest DEF ClientStop, memory
  <2>3. QED BY <1>0, <1>8, <2>1, <2>2, MoveTyped DEF ClientStop, memory, socket, TypeOK, ClientPC
<1>9. CASE ClientCompose
  <2>1. /\ pc' = [pc EXCEPT !["client"] = "send"]
        /\ pc["client"] = "loop" /\ moved' = moved
        /\ UNCHANGED <<setting, socket, expired, ops>>
        /\ size' = [size EXCEPT !["client"] = MsgLen]
    BY <1>9 DEF ClientCompose, Goto
  <2>2. buf' \in [Ends -> [1..MaxLen -> Unit]]
    <3> DEFINE new == [i \in 1..MaxLen |->
                         IF i <= MsgLen
                         THEN [seq |-> buf["client"][1].seq + 1, part |-> i, from |-> "client"]
                         ELSE buf["client"][i]]
    <3>1. 1 \in 1..MaxLen
      BY UdsAssumption
    <3>2. buf["client"] \in [1..MaxLen -> Unit] /\ buf["client"][1].seq \in Nat
      <4>1. buf["client"] \in [1..MaxLen -> Unit]
        BY <1>0 DEF TypeOK
      <4>2. buf["client"][1] \in Unit
        BY <3>1, <4>1
      <4>3. QED BY <4>1, <4>2 DEF Unit
    <3>3. new \in [1..MaxLen -> Unit]
      BY <1>0, <3>2, UdsAssumption DEF Unit
    <3>4. buf' = [buf EXCEPT !["client"] = new]
      BY <1>0, <1>9 DEF ClientCompose, TypeOK
    <3> HIDE DEF new
    <3>5. QED BY <1>0, <3>3, <3>4 DEF TypeOK
  <2>3. TypeOK'
    <3>1. size' \in [Ends -> (HdrLen + 1)..MaxLen]
      BY <1>0, <2>1, UdsAssumption DEF TypeOK
    <3>2. /\ pc' \in [Ends -> ServerPC \union ClientPC]
          /\ pc'["server"] \in ServerPC
          /\ pc'["client"] \in ClientPC
      BY <1>0, <2>1 DEF TypeOK, ClientPC, Ends
    <3>3. QED BY <1>0, <2>1, <2>2, <3>1, <3>2 DEF TypeOK, setting, socket
  <2>4. Cursor'
    BY <1>0, <2>1, UdsAssumption DEF Typed, TypeOK, Cursor, CursorOf
  <2>5. QED BY <2>3, <2>4 DEF Typed
<1>10. CASE Count
  <2>1. pc' = [pc EXCEPT !["client"] = "loop"] /\ pc["client"] = "count"
    BY <1>10 DEF Count, Goto
  <2>2. moved' = [moved EXCEPT !["client"] = 0]
    BY <1>0, <1>10, <2>1, AtRest DEF Count, memory
  <2>3. ops' \in Nat
    BY <1>0, <1>10 DEF Count, TypeOK
  <2>4. UNCHANGED <<setting, path, connected, stream, closed, reset, buf, size, expired>>
    BY <1>10 DEF Count, memory, socket
  <2>5. "loop" \in ClientPC
    BY DEF ClientPC
  <2>6. QED BY <1>0, <2>1, <2>2, <2>3, <2>4, <2>5, MoveTyped DEF TypeOK
<1>11. ASSUME NEW p \in Ends, SendFails(p)
       PROVE  Typed'
  <2>1. /\ pc' = [pc EXCEPT ![p] = End(p)]
        /\ moved' = [moved EXCEPT ![p] = 0]
        /\ End(p) \in IF p = "server" THEN ServerPC ELSE ClientPC
    BY <1>11 DEF SendFails, Goto, End, ServerPC, ClientPC
  <2>2. UNCHANGED <<setting, path, connected, stream, closed, reset, buf, size, expired, ops>>
    BY <1>11 DEF SendFails, socket
  <2>3. QED BY <1>0, <2>1, <2>2, MoveTyped DEF TypeOK
<1>12. ASSUME NEW p \in Ends, Expire(p)
       PROVE  Typed'
  BY <1>12 DEF Expire, Typed, TypeOK, Cursor, CursorOf, setting, socket, memory
<1>13. CASE UNCHANGED vars
  BY <1>13 DEF Typed, TypeOK, Cursor, CursorOf, vars, setting, socket, memory
<1>14. QED
  BY <1>1, <1>2, <1>3, <1>4, <1>5, <1>6, <1>7, <1>8, <1>9, <1>10, <1>11, <1>12, <1>13,
     Steps, SendTyped, CheckSizeTyped, ReceiveTyped, ReceiveEndTyped

LEMMA InitTyped == Init => Typed
<1>1. SUFFICES ASSUME Init PROVE Typed
  OBVIOUS
<1>2. NoUnit \in Unit /\ <<>> \in Seq(Unit)
  BY UdsAssumption DEF NoUnit, Unit, Ends
<1>3. MsgLen \in (HdrLen + 1)..MaxLen /\ 0 \in 0..MaxLen
  BY UdsAssumption
<1>4. TypeOK
  BY <1>1, <1>2, <1>3 DEF Init, TypeOK, ServerPC, ClientPC, Ends
<1>5. Cursor
  BY <1>1 DEF Init, Cursor, CursorOf
<1>6. QED BY <1>4, <1>5 DEF Typed

(***************************************************************************)
(* The variables keep their types, for every length of header, message and *)
(* buffer and wherever data is cut: a size that was accepted fits the      *)
(* buffer, and no recv of run_uds_*_server or run_uds_*_client writes past *)
(* its end.                                                                *)
(***************************************************************************)
THEOREM TypeInv == Spec => []TypeOK
<1>1. Typed => TypeOK
  BY DEF Typed
<1>2. QED BY <1>1, InitTyped, StepTyped, PTL DEF Spec

-----------------------------------------------------------------------------
(* The phases of a call, when data is cut only where it is joined again.   *)

(* Buffer b holds the first n units of the message of call c, as q sent it. *)
Filled(b, c, n, q) == \A i \in 1..n : b[i] = [seq |-> c, part |-> i, from |-> q]

(* Stream s holds the units of that message after the n-th, up to the m-th. *)
Carries(s, c, n, m, q) ==
  /\ Len(s) = m - n
  /\ \A i \in 1..(m - n) : s[i] = [seq |-> c, part |-> n + i, from |-> q]

(* What p has read of the message it is at. *)
Taken(p) ==
  CASE pc[p] = "header" -> moved[p]
    [] pc[p] = "size" -> HdrLen
    [] OTHER -> HdrLen + moved[p]

AllRead == \A p \in Ends : stream[p] = <<>>

Reading == {"header", "size", "body"}

(* Places of a server that has no request, or not seen it yet. *)
Unaware == {"accept", "loop", "header", "close"}

(* No call is in flight. *)
Quiet ==
  /\ AllRead
  /\ pc["client"] \in {"connect", "loop", "send", "free", "done", "failed"}
  /\ pc["server"] \in Unaware \union {"listen", "free", "done"}
  /\ \A p \in Ends : moved[p] = 0
  /\ pc["client"] \in {"connect", "loop"} => buf["client"][1].seq = ops
  /\ pc["client"] = "send" =>
       size["client"] = MsgLen /\ Filled(buf["client"], ops + 1, MsgLen, "client")

(* The request is on its way. *)
Asked ==
  /\ stream["client"] = <<>>
  /\ Carries(stream["server"], ops + 1, 0, MsgLen, "client")
  /\ pc["client"] = "header" /\ moved["client"] = 0
  /\ pc["server"] \in Unaware /\ moved["server"] = 0

(* The server has read its header. *)
Taking ==
  /\ stream["client"] = <<>>
  /\ Carries(stream["server"], ops + 1, HdrLen, MsgLen, "client")
  /\ Filled(buf["server"], ops + 1, HdrLen, "client")
  /\ pc["client"] = "header" /\ moved["client"] = 0
  /\ pc["server"] \in {"size", "body"} /\ moved["server"] = 0
  /\ pc["server"] = "body" => size["server"] = MsgLen

(* The server has sent a part of its answer, and the client read a part of that. *)
Answering ==
  /\ stream["server"] = <<>>
  /\ Taken("client") <= moved["server"]
  /\ Carries(stream["client"], ops + 1, Taken("client"), moved["server"], "server")
  /\ Filled(buf["client"], ops + 1, Taken("client"), "server")
  /\ Filled(buf["server"], ops + 1, MsgLen, "client")
  /\ pc["client"] \in Reading
  /\ pc["client"] = "body" => size["client"] = MsgLen
  /\ pc["server"] = "send" /\ size["server"] = MsgLen
  /\ "client" \notin looping => moved["server"] = 0

(* The whole answer is sent, and the client has read a part of it. *)
Answered ==
  /\ stream["server"] = <<>>
  /\ Carries(stream["client"], ops + 1, Taken("client"), MsgLen, "server")
  /\ Filled(buf["client"], ops + 1, Taken("client"), "server")
  /\ pc["client"] \in Reading
  /\ pc["client"] = "body" => size["client"] = MsgLen
  /\ pc["server"] \in {"loop", "header", "close", "free", "done"} /\ moved["server"] = 0

Counting ==
  /\ AllRead
  /\ Filled(buf["client"], ops + 1, MsgLen, "server")
  /\ pc["client"] = "count"
  /\ pc["server"] \in {"loop", "header", "close", "free", "done"} /\ moved["server"] = 0

(* The server has closed with the request unread. *)
Lost ==
  /\ AllRead
  /\ pc["client"] = "header" /\ moved["client"] = 0
  /\ pc["server"] \in {"free", "done"} /\ moved["server"] = 0

Phase == Quiet \/ Asked \/ Taking \/ Answering \/ Answered \/ Counting \/ Lost

(* Who has closed its end, and that nobody connects before the server listens. *)
Alive ==
  /\ closed["server"] <=> pc["server"] \in {"free", "done"}
  /\ closed["client"] <=> pc["client"] = "done"
  /\ pc["server"] = "listen" => path # "live" /\ pc["client"] \in {"connect", "failed"}

Inductive == Typed /\ Alive /\ (Regular => Phase)

-----------------------------------------------------------------------------
(* What moving units does to a buffer and to a stream.                     *)

LEMMA RestOfStream ==
  ASSUME NEW s \in Seq(Unit), NEW c, NEW a \in Nat, NEW b \in Nat, NEW q,
         Carries(s, c, a, b, q), NEW n \in 1..Len(s)
  PROVE  Carries(SubSeq(s, n + 1, Len(s)), c, a + n, b, q)
<1> DEFINE t == SubSeq(s, n + 1, Len(s))
<1>1. /\ Len(t) = Len(s) - n
      /\ \A i \in 1..(Len(s) - n) : t[i] = s[n + i]
  BY TakeUnits
<1>2. Len(s) = b - a /\ Len(s) \in Nat
  BY DEF Carries
<1> HIDE DEF t
<1>3. ASSUME NEW i \in 1..(b - (a + n))
      PROVE  t[i] = [seq |-> c, part |-> (a + n) + i, from |-> q]
  <2>1. i \in 1..(Len(s) - n) /\ n + i \in 1..(b - a) /\ a + (n + i) = (a + n) + i
    BY <1>2
  <2>2. t[i] = s[n + i]
    BY <1>1, <2>1
  <2>3. s[n + i] = [seq |-> c, part |-> a + (n + i), from |-> q]
    BY <2>1 DEF Carries
  <2>4. QED BY <2>1, <2>2, <2>3
<1>4. Len(t) = b - (a + n)
  BY <1>1, <1>2
<1>5. Carries(t, c, a + n, b, q)
  BY <1>3, <1>4 DEF Carries
<1>6. QED BY <1>5 DEF t

LEMMA MoreOfMessage ==
  ASSUME NEW s, NEW c, NEW a \in Nat, NEW b \in Nat, NEW q, NEW old, NEW n \in 1..(b - a),
         Carries(s, c, a, b, q), Filled(old, c, a, q), a + n <= MaxLen,
         NEW new, \A i \in 1..MaxLen : new[i] = IF i \in (a + 1)..(a + n) THEN s[i - a] ELSE old[i]
  PROVE  Filled(new, c, a + n, q)
<1>1. ASSUME NEW i \in 1..(a + n)
      PROVE  new[i] = [seq |-> c, part |-> i, from |-> q]
  <2>1. i \in 1..MaxLen
    BY UdsAssumption
  <2>2. CASE i <= a
    <3>1. i \in 1..a /\ i \notin (a + 1)..(a + n)
      BY <2>2
    <3>2. new[i] = old[i]
      BY <2>1, <3>1
    <3>3. QED BY <3>1, <3>2 DEF Filled
  <2>3. CASE ~(i <= a)
    <3>1. i \in (a + 1)..(a + n) /\ i - a \in 1..(b - a) /\ a + (i - a) = i
      BY <2>3
    <3>2. new[i] = s[i - a]
      BY <2>1, <3>1
    <3>3. s[i - a] = [seq |-> c, part |-> a + (i - a), from |-> q]
      BY <3>1 DEF Carries
    <3>4. QED BY <3>1, <3>2, <3>3
  <2>4. QED BY <2>2, <2>3
<1>2. QED BY <1>1 DEF Filled

LEMMA MoreOnTheWay ==
  ASSUME NEW s \in Seq(Unit), NEW c, NEW a \in Nat, NEW m \in Nat, NEW k \in Nat, NEW q,
         NEW units, units \in [1..k -> Unit], a <= m, Carries(s, c, a, m, q),
         \A i \in 1..k : units[i] = [seq |-> c, part |-> m + i, from |-> q]
  PROVE  Carries(s \o units, c, a, m + k, q)
<1> DEFINE t == s \o units
<1>1. /\ Len(t) = Len(s) + k
      /\ \A i \in 1..Len(s) : t[i] = s[i]
      /\ \A i \in 1..k : t[Len(s) + i] = units[i]
  BY AddUnits
<1>2. Len(s) = m - a /\ Len(s) \in Nat
  BY DEF Carries
<1> HIDE DEF t
<1>3. ASSUME NEW i \in 1..((m + k) - a)
      PROVE  t[i] = [seq |-> c, part |-> a + i, from |-> q]
  <2>1. CASE i <= Len(s)
    <3>1. i \in 1..Len(s) /\ i \in 1..(m - a)
      BY <1>2, <2>1
    <3>2. QED BY <1>1, <3>1 DEF Carries
  <2>2. CASE ~(i <= Len(s))
    <3>1. /\ i - Len(s) \in 1..k
          /\ Len(s) + (i - Len(s)) = i
          /\ m + (i - Len(s)) = a + i
      BY <1>2, <2>2
    <3>2. t[i] = units[i - Len(s)]
      BY <1>1, <3>1
    <3>3. QED BY <3>1, <3>2
  <2>3. QED BY <2>1, <2>2
<1>4. Len(t) = (m + k) - a
  BY <1>1, <1>2
<1>5. Carries(t, c, a, m + k, q)
  BY <1>3, <1>4 DEF Carries
<1>6. QED BY <1>5 DEF t

(* A stream that carries nothing, and the other way round. *)
LEMMA NothingCarried ==
  ASSUME NEW s \in Seq(Unit), NEW c, NEW n \in Nat, NEW m \in Nat, NEW q
  PROVE  /\ Carries(s, c, n, n, q) <=> s = <<>>
         /\ Carries(s, c, n, m, q) /\ n # m => s # <<>> /\ Len(s) \in 1..(m - n)
<1>1. Len(s) = 0 <=> s = <<>>
  BY EmptySeq
<1>2. Len(s) \in Nat
  OBVIOUS
<1>3. \A i \in 1..(n - n) : FALSE
  OBVIOUS
<1>4. QED BY <1>1, <1>2, <1>3 DEF Carries

(* What p sends is the next piece of the message in its buffer, from p. *)
LEMMA PieceSent ==
  ASSUME Typed, NEW p \in Ends, NEW c, NEW q, Filled(buf[p], c, MsgLen, q),
         NEW k \in 1..(MsgLen - moved[p])
  PROVE  \A i \in 1..k : Sending(p, k)[i] = [seq |-> c, part |-> moved[p] + i, from |-> p]
<1>1. moved[p] \in Nat
  BY DEF Typed, TypeOK
<1>2. TAKE i \in 1..k
<1>3. moved[p] + i \in 1..MsgLen
  BY <1>1, UdsAssumption
<1>4. buf[p][moved[p] + i] = [seq |-> c, part |-> moved[p] + i, from |-> q]
  BY <1>3 DEF Filled
<1>5. Sending(p, k)[i] = [buf[p][moved[p] + i] EXCEPT !.from = p]
  BY DEF Sending
<1>6. QED BY <1>4, <1>5

-----------------------------------------------------------------------------
(* Each action keeps to the phases.                                        *)

(* What every step has to go on: types of the variables it looks at. *)
LEMMA Known ==
  ASSUME Inductive
  PROVE  /\ "server" \in Ends /\ "client" \in Ends
         /\ \A p \in Ends : /\ stream[p] \in Seq(Unit) /\ Len(stream[p]) \in Nat
                           /\ moved[p] \in Nat
                           /\ buf[p] \in [1..MaxLen -> Unit]
                           /\ size[p] \in (HdrLen + 1)..MaxLen
                           /\ Taken(p) \in Nat
         /\ ops \in Nat /\ ops + 1 \in Nat
         /\ looping \subseteq {"client"}
         /\ Regular => "server" \notin cut /\ ("client" \in cut => "client" \in looping)
         /\ DOMAIN pc = Ends /\ DOMAIN stream = Ends /\ DOMAIN buf = Ends /\ DOMAIN size = Ends
         /\ DOMAIN moved = Ends
<1>1. Typed /\ TypeOK
  BY DEF Inductive, Typed
<1>2. \A p \in Ends : stream[p] \in Seq(Unit) /\ Len(stream[p]) \in Nat
  <2>1. \A p \in Ends : stream[p] \in Seq(Unit)
    BY <1>1 DEF TypeOK
  <2>2. QED BY <2>1
<1>3. \A p \in Ends : moved[p] \in Nat /\ Taken(p) \in Nat
  BY <1>1, UdsAssumption DEF TypeOK, Taken
<1>4. QED
  BY <1>1, <1>2, <1>3, UdsAssumption DEF TypeOK, Ends, Regular

LEMMA ServerReceives ==
  ASSUME Inductive, Regular, NEW part, NEW next, Part("server", part, next),
         Receive("server", part, next)
  PROVE  Phase'
<1> DEFINE c == ops + 1
<1>1. Typed /\ Phase
  BY DEF Inductive
<1>2. PICK n \in 1..Len(stream["server"]) :
        LET start == Offset(part) + moved["server"]
        IN  /\ pc["server"] = part
            /\ n <= Length("server", part) - moved["server"]
            /\ n = Length("server", part) - moved["server"] \/ n = Len(stream["server"])
            /\ start + n <= MaxLen
            /\ stream' = [stream EXCEPT !["server"] =
                            SubSeq(stream["server"], n + 1, Len(stream["server"]))]
            /\ buf' = [buf EXCEPT !["server"] =
                         [i \in 1..MaxLen |->
                            IF i \in (start + 1)..(start + n)
                            THEN stream["server"][i - start] ELSE buf["server"][i]]]
            /\ pc' = [pc EXCEPT !["server"] = next]
            /\ moved' = [moved EXCEPT !["server"] = 0]
            /\ UNCHANGED <<setting, path, connected, closed, reset, size, expired, ops>>
  <2>1. "server" \in Ends /\ "server" \notin looping
    BY Known
  <2>2. QED BY <1>1, <2>1, ReceiveEffect
<1>3. stream["server"] # <<>>
  BY DEF Receive
<1>4. /\ stream' = [stream EXCEPT !["server"] = SubSeq(stream["server"], n + 1, Len(stream["server"]))]
      /\ ops' = ops /\ size' = size
      /\ stream'["client"] = stream["client"]
      /\ stream'["server"] = SubSeq(stream["server"], n + 1, Len(stream["server"]))
      /\ buf'["client"] = buf["client"]
      /\ pc'["client"] = pc["client"] /\ pc'["server"] = next
      /\ moved'["client"] = moved["client"] /\ moved'["server"] = 0
  BY <1>2, Known DEF Ends
<1>5. CASE Asked
  <2>1. part = "header" /\ next = "size" /\ moved["server"] = 0
    BY <1>2, <1>5 DEF Asked, Unaware, Part
  <2>2. n = HdrLen
    BY <1>2, <1>5, <2>1, UdsAssumption DEF Asked, Carries, Length
  <2>3. Carries(stream'["server"], c, HdrLen, MsgLen, "client")
    <3>1. Carries(SubSeq(stream["server"], n + 1, Len(stream["server"])), c, 0 + n, MsgLen, "client")
      <4>1. stream["server"] \in Seq(Unit) /\ Carries(stream["server"], c, 0, MsgLen, "client")
        BY <1>5, Known DEF Asked
      <4>2. 0 \in Nat /\ MsgLen \in Nat
        BY UdsAssumption
      <4>3. QED BY <4>1, <4>2, RestOfStream
    <3>2. 0 + n = HdrLen
      BY <2>2, UdsAssumption
    <3>3. QED BY <1>4, <3>1, <3>2
  <2>4. \A i \in 1..MaxLen :
          buf'["server"][i] = IF i \in (0 + 1)..(0 + n) THEN stream["server"][i - 0] ELSE buf["server"][i]
    BY <1>2, <2>1, Known DEF Offset
  <2>5. Filled(buf'["server"], c, 0 + n, "client")
    <3>1. Filled(buf["server"], c, 0, "client")
      BY DEF Filled
    <3>2. n \in 1..(MsgLen - 0) /\ 0 + n <= MaxLen
      BY <2>2, UdsAssumption
    <3>3. 0 \in Nat /\ MsgLen \in Nat
      BY UdsAssumption
    <3>4. Carries(stream["server"], c, 0, MsgLen, "client")
      BY <1>5 DEF Asked
    <3>5. QED BY <2>4, <3>1, <3>2, <3>3, <3>4, MoreOfMessage
  <2>6. Filled(buf'["server"], c, HdrLen, "client")
    BY <2>2, <2>5, UdsAssumption
  <2>7. Taking'
    BY <1>4, <1>5, <2>1, <2>3, <2>6 DEF Asked, Taking
  <2>8. QED BY <2>7 DEF Phase
<1>6. CASE Taking
  <2>1. part = "body" /\ next = "send" /\ moved["server"] = 0 /\ size["server"] = MsgLen
    BY <1>2, <1>6 DEF Taking, Part
  <2>2. n = MsgLen - HdrLen
    BY <1>2, <1>6, <2>1, UdsAssumption DEF Taking, Carries, Length
  <2>3. Carries(stream'["server"], c, HdrLen + n, MsgLen, "client")
    BY <1>4, <1>6, Known, RestOfStream, UdsAssumption DEF Taking
  <2>4. \A i \in 1..MaxLen :
          buf'["server"][i] = IF i \in (HdrLen + 1)..(HdrLen + n)
                              THEN stream["server"][i - HdrLen] ELSE buf["server"][i]
    <3>1. Offset(part) + moved["server"] = HdrLen
      BY <2>1, UdsAssumption DEF Offset
    <3>2. QED BY <1>2, <3>1, Known
  <2>5. Filled(buf'["server"], c, HdrLen + n, "client")
    <3>1. n \in 1..(MsgLen - HdrLen) /\ HdrLen + n <= MaxLen
      BY <2>2, UdsAssumption
    <3>2. HdrLen \in Nat /\ MsgLen \in Nat
      BY UdsAssumption
    <3>3. /\ Carries(stream["server"], c, HdrLen, MsgLen, "client")
          /\ Filled(buf["server"], c, HdrLen, "client")
      BY <1>6 DEF Taking
    <3>4. QED BY <2>4, <3>1, <3>2, <3>3, MoreOfMessage
  <2>6. HdrLen + n = MsgLen
    BY <2>2, UdsAssumption
  <2>7. Filled(buf'["server"], c, MsgLen, "client")
    BY <2>5, <2>6
  <2>8. stream'["server"] = <<>>
    <3>1. stream'["server"] \in Seq(Unit)
      BY <1>4, Known, TakeUnits
    <3>2. QED BY <2>3, <2>6, <3>1, NothingCarried, UdsAssumption
  <2>9. /\ Taken("client")' = 0
        /\ Carries(stream'["client"], c, 0, 0, "server")
        /\ Filled(buf'["client"], c, 0, "server")
    BY <1>4, <1>6, Known, NothingCarried DEF Taking, Taken, Filled
  <2>10. Answering'
    BY <1>4, <1>6, <2>1, <2>7, <2>8, <2>9 DEF Taking, Answering, Reading
  <2>11. QED BY <2>10 DEF Phase
<1>7. QED
  BY <1>1, <1>3, <1>5, <1>6, Known DEF Phase, Quiet, Answering, Answered, Counting, Lost, AllRead

(* The client takes n of the units of the answer that are there, the m-th the last. *)
LEMMA ClientTakes ==
  ASSUME Inductive, NEW part, NEW next, Part("client", part, next),
         Receive("client", part, next), NEW m \in Nat, Taken("client") <= m, m <= MsgLen,
         Carries(stream["client"], ops + 1, Taken("client"), m, "server"),
         Filled(buf["client"], ops + 1, Taken("client"), "server"),
         pc["client"] = "body" => size["client"] = MsgLen,
         "client" \notin looping => m = MsgLen
  PROVE  \E n \in 1..(m - Taken("client")) :
           /\ Carries(stream'["client"], ops + 1, Taken("client") + n, m, "server")
           /\ Filled(buf'["client"], ops + 1, Taken("client") + n, "server")
           /\ \/ /\ Taken("client") + n = MsgLen
                 /\ pc'["client"] = "count"
              \/ /\ Taken("client")' = Taken("client") + n
                 /\ pc'["client"] \in Reading
                 /\ pc'["client"] = "body" => pc["client"] = "body"
           /\ stream'["client"] \in Seq(Unit)
           /\ stream'["server"] = stream["server"] /\ buf'["server"] = buf["server"]
           /\ pc'["server"] = pc["server"] /\ moved'["server"] = moved["server"]
           /\ UNCHANGED <<setting, size, ops>>
<1> DEFINE c == ops + 1
           a == Taken("client")
<1>1. PICK n \in 1..Len(stream["client"]) :
        LET start == Offset(part) + moved["client"]
            complete == "client" \notin looping \/ moved["client"] + n = Length("client", part)
        IN  /\ pc["client"] = part
            /\ n <= Length("client", part) - moved["client"]
            /\ n = Length("client", part) - moved["client"] \/ n = Len(stream["client"])
            /\ start + n <= MaxLen
            /\ stream' = [stream EXCEPT !["client"] =
                            SubSeq(stream["client"], n + 1, Len(stream["client"]))]
            /\ buf' = [buf EXCEPT !["client"] =
                         [i \in 1..MaxLen |->
                            IF i \in (start + 1)..(start + n)
                            THEN stream["client"][i - start] ELSE buf["client"][i]]]
            /\ pc' = [pc EXCEPT !["client"] = IF complete THEN next ELSE part]
            /\ moved' = [moved EXCEPT !["client"] = IF complete THEN 0 ELSE moved["client"] + n]
            /\ UNCHANGED <<setting, path, connected, closed, reset, size, expired, ops>>
  <2>1. "client" \in Ends /\ Typed
    BY Known DEF Inductive
  <2>2. QED BY <2>1, ReceiveEffect
<1>2. /\ stream'["client"] = SubSeq(stream["client"], n + 1, Len(stream["client"]))
      /\ stream'["server"] = stream["server"] /\ buf'["server"] = buf["server"]
      /\ pc'["server"] = pc["server"] /\ moved'["server"] = moved["server"]
      /\ UNCHANGED <<setting, size, ops>>
  BY <1>1, Known DEF Ends
<1>3. /\ a \in Nat /\ stream["client"] \in Seq(Unit)
      /\ Offset(part) + moved["client"] = a /\ a + n <= MaxLen
  <2>1. /\ moved["client"] \in Nat /\ HdrLen \in Nat
        /\ stream["client"] \in Seq(Unit) /\ Taken("client") \in Nat
    BY Known, UdsAssumption
  <2>2. Offset(part) + moved["client"] = a
    BY <1>1, <2>1 DEF Offset, Part, Taken
  <2>3. QED BY <1>1, <2>1, <2>2
<1> HIDE DEF a
<1>4. Len(stream["client"]) = m - a /\ n \in 1..(m - a)
  <2>1. Len(stream["client"]) = m - a
    BY DEF Carries, a
  <2>2. QED BY <1>1, <2>1
<1>5. Carries(stream'["client"], c, a + n, m, "server")
  <2>1. Carries(stream["client"], c, a, m, "server")
    BY DEF a
  <2>2. QED BY <1>2, <1>3, <2>1, RestOfStream
<1>6. Filled(buf'["client"], c, a + n, "server")
  <2>1. \A i \in 1..MaxLen :
          buf'["client"][i] = IF i \in (a + 1)..(a + n)
                              THEN stream["client"][i - a] ELSE buf["client"][i]
    BY <1>1, <1>3, Known
  <2>2. Carries(stream["client"], c, a, m, "server") /\ Filled(buf["client"], c, a, "server")
    BY DEF a
  <2>3. a \in Nat /\ a + n <= MaxLen /\ n \in 1..(m - a)
    BY <1>3, <1>4
  <2>4. QED BY <2>1, <2>2, <2>3, MoreOfMessage
<1>7. /\ Length("client", part) \in Nat
      /\ part = "header" => a = moved["client"] /\ Length("client", part) = HdrLen /\ next = "size"
      /\ part = "body" => /\ a = HdrLen + moved["client"]
                          /\ Length("client", part) = MsgLen - HdrLen /\ next = "count"
  <2>1. /\ pc["client"] = part /\ moved["client"] \in Nat
        /\ Offset(part) + moved["client"] = a
        /\ HdrLen \in Nat /\ MsgLen \in Nat /\ MsgLen - HdrLen \in Nat
    <3>1. pc["client"] = part
      BY <1>1
    <3>2. moved["client"] \in Nat
      BY Known
    <3>3. HdrLen \in Nat /\ MsgLen \in Nat /\ MsgLen - HdrLen \in Nat
      BY UdsAssumption
    <3>4. QED BY <1>3, <3>1, <3>2, <3>3
  <2>2. CASE part = "header"
    <3>1. next = "size" /\ Offset(part) = 0 /\ Length("client", part) = HdrLen
      BY <2>2 DEF Part, Length, Offset
    <3>2. QED BY <2>1, <2>2, <3>1
  <2>3. CASE part = "body"
    <3>1. next = "count" /\ Offset(part) = HdrLen /\ Length("client", part) = MsgLen - HdrLen
      BY <2>1, <2>3 DEF Part, Length, Offset
    <3>2. QED BY <2>1, <2>3, <3>1
  <2>4. QED BY <2>2, <2>3 DEF Part
<1>8. "client" \notin looping => moved["client"] + n = Length("client", part)
  <2>1. HAVE "client" \notin looping
  <2>2. m = MsgLen /\ moved["client"] \in Nat
    BY <2>1, Known
  <2>3. HdrLen \in Nat /\ MsgLen \in Nat /\ HdrLen < MsgLen
    BY UdsAssumption
  <2>4. /\ n <= Length("client", part) - moved["client"]
        /\ n = Length("client", part) - moved["client"] \/ n = Len(stream["client"])
    BY <1>1
  <2>5. CASE part = "header"
    <3>1. a = moved["client"] /\ Length("client", part) = HdrLen
      BY <1>7, <2>5
    <3>2. QED BY <1>3, <1>4, <2>2, <2>3, <2>4, <3>1
  <2>6. CASE part = "body"
    <3>1. a = HdrLen + moved["client"] /\ Length("client", part) = MsgLen - HdrLen
      BY <1>7, <2>6
    <3>2. QED BY <1>3, <1>4, <2>2, <2>3, <2>4, <3>1
  <2>7. QED BY <2>5, <2>6 DEF Part
<1>9. \/ a + n = MsgLen /\ pc'["client"] = "count"
      \/ /\ Taken("client")' = a + n
         /\ pc'["client"] \in Reading
         /\ pc'["client"] = "body" => pc["client"] = "body"
  <2>1. moved["client"] \in Nat /\ moved["client"] + n \in Nat /\ n \in Nat
    BY <1>4, Known
  <2>2. CASE moved["client"] + n = Length("client", part)
    <3>1. pc'["client"] = next /\ moved'["client"] = 0
      BY <1>1, <2>2, Known
    <3>2. CASE part = "header"
      BY <1>7, <2>1, <2>2, <3>1, <3>2 DEF Taken, Reading
    <3>3. CASE part = "body"
      <4>1. /\ a = HdrLen + moved["client"] /\ next = "count"
            /\ moved["client"] + n = MsgLen - HdrLen
        BY <1>7, <2>2, <3>3
      <4>2. HdrLen \in Nat /\ MsgLen \in Nat
        BY UdsAssumption
      <4>3. a + n = MsgLen
        BY <2>1, <4>1, <4>2
      <4>4. QED BY <3>1, <4>1, <4>3
    <3>4. QED BY <3>2, <3>3 DEF Part
  <2>3. CASE moved["client"] + n # Length("client", part)
    <3>1. pc'["client"] = part /\ moved'["client"] = moved["client"] + n /\ pc["client"] = part
      BY <1>1, <1>8, <2>3, Known
    <3>2. CASE part = "header"
      BY <1>7, <2>1, <3>1, <3>2 DEF Taken, Reading
    <3>3. CASE part = "body"
      BY <1>7, <2>1, <3>1, <3>3, UdsAssumption DEF Taken, Reading
    <3>4. QED BY <3>2, <3>3 DEF Part
  <2>4. QED BY <2>2, <2>3
<1>10. stream'["client"] \in Seq(Unit)
  BY <1>2, <1>3, <1>4, TakeUnits
<1>11. QED BY <1>2, <1>4, <1>5, <1>6, <1>9, <1>10 DEF a

LEMMA ClientReceives ==
  ASSUME Inductive, Regular, NEW part, NEW next, Part("client", part, next),
         Receive("client", part, next)
  PROVE  Phase'
<1>1. Typed /\ Phase /\ stream["client"] # <<>> /\ HdrLen \in Nat /\ MsgLen \in Nat
  BY UdsAssumption DEF Inductive, Receive
<1>2. CASE Answering
  <2>1. moved["server"] \in Nat /\ moved["server"] < MsgLen
    BY <1>1, <1>2, Known DEF Answering, Typed, Cursor, CursorOf
  <2>2. "client" \in looping
    <3>1. Taken("client") # moved["server"]
      BY <1>1, <1>2, <2>1, Known, NothingCarried DEF Answering
    <3>2. moved["server"] > 0
      BY <1>2, <2>1, <3>1, Known DEF Answering
    <3>3. QED BY <1>2, <3>2 DEF Answering
  <2>3. PICK n \in 1..(moved["server"] - Taken("client")) :
          /\ Carries(stream'["client"], ops + 1, Taken("client") + n, moved["server"], "server")
          /\ Filled(buf'["client"], ops + 1, Taken("client") + n, "server")
          /\ \/ /\ Taken("client") + n = MsgLen
                /\ pc'["client"] = "count"
             \/ /\ Taken("client")' = Taken("client") + n
                /\ pc'["client"] \in Reading
                /\ pc'["client"] = "body" => pc["client"] = "body"
          /\ stream'["client"] \in Seq(Unit)
          /\ stream'["server"] = stream["server"] /\ buf'["server"] = buf["server"]
          /\ pc'["server"] = pc["server"] /\ moved'["server"] = moved["server"]
          /\ UNCHANGED <<setting, size, ops>>
    BY <1>1, <1>2, <2>1, <2>2, ClientTakes DEF Answering
  <2>4. Taken("client") + n <= moved["server"] /\ Taken("client") + n # MsgLen
    BY <1>1, <2>1, <2>3, Known
  <2>5. Answering'
    BY <1>2, <2>2, <2>3, <2>4 DEF Answering, setting
  <2>6. QED BY <2>5 DEF Phase
<1>3. CASE Answered
  <2>1. Taken("client") <= MsgLen
    <3>1. Len(stream["client"]) \in Nat /\ Len(stream["client"]) = MsgLen - Taken("client")
      BY <1>3, Known DEF Answered, Carries
    <3>2. QED BY <1>1, <3>1, Known
  <2>2. PICK n \in 1..(MsgLen - Taken("client")) :
          /\ Carries(stream'["client"], ops + 1, Taken("client") + n, MsgLen, "server")
          /\ Filled(buf'["client"], ops + 1, Taken("client") + n, "server")
          /\ \/ /\ Taken("client") + n = MsgLen
                /\ pc'["client"] = "count"
             \/ /\ Taken("client")' = Taken("client") + n
                /\ pc'["client"] \in Reading
                /\ pc'["client"] = "body" => pc["client"] = "body"
          /\ stream'["client"] \in Seq(Unit)
          /\ stream'["server"] = stream["server"] /\ buf'["server"] = buf["server"]
          /\ pc'["server"] = pc["server"] /\ moved'["server"] = moved["server"]
          /\ UNCHANGED <<setting, size, ops>>
    <3>1. /\ Carries(stream["client"], ops + 1, Taken("client"), MsgLen, "server")
          /\ Filled(buf["client"], ops + 1, Taken("client"), "server")
          /\ pc["client"] = "body" => size["client"] = MsgLen
          /\ MsgLen <= MsgLen
      BY <1>1, <1>3 DEF Answered
    <3>2. QED BY <1>1, <2>1, <3>1, ClientTakes
  <2>3. CASE Taken("client") + n = MsgLen /\ pc'["client"] = "count"
    <3>1. stream'["client"] = <<>>
      BY <1>1, <2>2, <2>3, Known, NothingCarried
    <3>2. \A p \in Ends : stream'[p] = <<>>
      BY <1>3, <2>2, <3>1 DEF Answered, Ends
    <3>3. Counting'
      BY <1>3, <2>2, <2>3, <3>2 DEF Answered, Counting, AllRead
    <3>4. QED BY <3>3 DEF Phase
  <2>4. CASE pc'["client"] # "count"
    <3>1. Answered'
      BY <1>3, <2>2, <2>4 DEF Answered
    <3>2. QED BY <3>1 DEF Phase
  <2>5. QED BY <2>2, <2>3, <2>4 DEF Reading
<1>4. QED
  BY <1>1, <1>2, <1>3, Known DEF Phase, Quiet, Asked, Taking, Counting, Lost, AllRead

LEMMA ClientSends ==
  ASSUME Inductive, Regular, Send("client", "header")
  PROVE  Phase'
<1>1. Typed /\ Phase /\ Other("client") = "server"
  BY DEF Inductive, Other
<1>2. pc["client"] = "send"
  BY DEF Send
<1>3. Quiet
  BY <1>1, <1>2 DEF Phase, Asked, Taking, Answering, Answered, Counting, Lost, Reading
<1>4. /\ ~closed["server"]
      /\ UNCHANGED <<setting, path, connected, closed, reset, buf, size, expired, ops>>
      /\ \E k \in 1..(size["client"] - moved["client"]) : Sent("client", "server", "header", k)
  <2>1. "client" \in Ends
    BY Known
  <2>2. \E k \in 1..(size["client"] - moved["client"]) : Sent("client", "server", "header", k)
    BY <1>1, <2>1, SendEffect
  <2>3. /\ ~closed["server"]
        /\ UNCHANGED <<setting, path, connected, closed, reset, buf, size, expired, ops>>
    BY <1>1, <2>1, SendEffect
  <2>4. QED BY <2>2, <2>3
<1>5. size["client"] = MsgLen /\ moved["client"] = 0 /\ MsgLen \in Nat /\ moved["server"] = 0
  BY <1>2, <1>3, Known, UdsAssumption DEF Quiet
<1>6. PICK k \in 1..MsgLen :
        /\ k = MsgLen
        /\ Sending("client", k) \in [1..k -> Unit]
        /\ stream' = [stream EXCEPT !["server"] = stream["server"] \o Sending("client", k)]
        /\ pc' = [pc EXCEPT !["client"] = "header"]
        /\ moved' = [moved EXCEPT !["client"] = 0]
  <2>1. PICK k \in 1..(size["client"] - moved["client"]) :
          /\ moved["client"] + k = size["client"]
          /\ Sending("client", k) \in [1..k -> Unit]
          /\ stream' = [stream EXCEPT !["server"] = stream["server"] \o Sending("client", k)]
          /\ pc' = [pc EXCEPT !["client"] = "header"]
          /\ moved' = [moved EXCEPT !["client"] = 0]
    BY <1>4, Known DEF Sent
  <2>2. k \in 1..MsgLen /\ k = MsgLen
    BY <1>5, <2>1
  <2>3. QED BY <2>1, <2>2
<1>7. Carries(stream'["server"], ops + 1, 0, 0 + k, "client")
  <2>1. \A i \in 1..k : Sending("client", k)[i] = [seq |-> ops + 1, part |-> 0 + i, from |-> "client"]
    <3>1. Filled(buf["client"], ops + 1, MsgLen, "client")
      BY <1>2, <1>3 DEF Quiet
    <3>2. k \in 1..(MsgLen - moved["client"])
      BY <1>5, <1>6
    <3>3. \A i \in 1..k : Sending("client", k)[i] =
                            [seq |-> ops + 1, part |-> moved["client"] + i, from |-> "client"]
      <4>1. "client" \in Ends
        BY Known
      <4>2. QED BY <1>1, <3>1, <3>2, <4>1, PieceSent
    <3>4. QED BY <1>5, <3>3
  <2>2. Carries(stream["server"], ops + 1, 0, 0, "client") /\ stream["server"] \in Seq(Unit)
    BY <1>3, Known, NothingCarried DEF Quiet, AllRead
  <2>3. Carries(stream["server"] \o Sending("client", k), ops + 1, 0, 0 + k, "client")
    <3>1. k \in Nat /\ 0 \in Nat /\ 0 <= 0 /\ Sending("client", k) \in [1..k -> Unit]
      BY <1>6
    <3>2. QED BY <2>1, <2>2, <3>1, MoreOnTheWay
  <2>4. QED BY <1>6, <2>3, Known
<1>8. 0 + k = MsgLen
  BY <1>5, <1>6
<1>9. /\ stream'["client"] = <<>>
      /\ pc'["client"] = "header" /\ moved'["client"] = 0
      /\ pc'["server"] = pc["server"] /\ moved'["server"] = 0 /\ ops' = ops
  BY <1>3, <1>4, <1>5, <1>6, Known DEF Quiet, AllRead
<1>10. pc["server"] \in Unaware
  BY <1>2, <1>3, <1>4 DEF Quiet, Inductive, Alive
<1>11. Asked'
  BY <1>7, <1>8, <1>9, <1>10 DEF Asked
<1>12. QED BY <1>11 DEF Phase

LEMMA ServerSends ==
  ASSUME Inductive, Regular, Send("server", "loop")
  PROVE  Phase'
<1>1. Typed /\ Phase /\ Other("server") = "client" /\ MsgLen \in Nat
  BY UdsAssumption DEF Inductive, Other
<1>2. Answering
  <2>1. pc["server"] = "send"
    BY DEF Send
  <2>2. QED BY <1>1, <2>1 DEF Phase, Quiet, Asked, Taking, Answered, Counting, Lost, Unaware
<1> DEFINE m == moved["server"]
           a == Taken("client")
<1>3. PICK k \in 1..(size["server"] - moved["server"]) :
        LET whole == moved["server"] + k = size["server"]
        IN  /\ "client" \notin cut => whole
            /\ Sending("server", k) \in [1..k -> Unit]
            /\ stream' = [stream EXCEPT !["client"] = stream["client"] \o Sending("server", k)]
            /\ pc' = [pc EXCEPT !["server"] = IF whole THEN "loop" ELSE "send"]
            /\ moved' = [moved EXCEPT !["server"] = IF whole THEN 0 ELSE moved["server"] + k]
  <2>1. "server" \in Ends
    BY Known
  <2>2. PICK k \in 1..(size["server"] - moved["server"]) : Sent("server", "client", "loop", k)
    BY <1>1, <2>1, SendEffect
  <2>3. QED BY <2>2 DEF Sent
<1>4. UNCHANGED <<setting, path, connected, closed, reset, buf, size, expired, ops>>
  BY <1>1, Known, SendEffect
<1>5. size["server"] = MsgLen /\ m \in Nat /\ a \in Nat /\ a <= m
      /\ k \in 1..(MsgLen - m) /\ k \in Nat
  BY <1>1, <1>2, <1>3, Known DEF Answering
<1>6. Carries(stream'["client"], ops + 1, a, m + k, "server")
  <2>1. \A i \in 1..k : Sending("server", k)[i] = [seq |-> ops + 1, part |-> m + i, from |-> "server"]
    <3>1. Filled(buf["server"], ops + 1, MsgLen, "client")
      BY <1>2 DEF Answering
    <3>2. QED BY <1>1, <1>5, <3>1, Known, PieceSent
  <2>2. Carries(stream["client"], ops + 1, a, m, "server") /\ stream["client"] \in Seq(Unit)
    BY <1>2, Known DEF Answering
  <2>3. Sending("server", k) \in [1..k -> Unit]
    BY <1>3
  <2> HIDE DEF a, m
  <2>4. Carries(stream["client"] \o Sending("server", k), ops + 1, a, m + k, "server")
    BY <1>5, <2>1, <2>2, <2>3, MoreOnTheWay
  <2>5. QED BY <1>3, <2>4, Known
<1>7. /\ stream'["server"] = <<>> /\ pc'["client"] = pc["client"]
      /\ moved'["client"] = moved["client"] /\ Taken("client")' = a
      /\ buf' = buf /\ size' = size /\ ops' = ops /\ looping' = looping
  BY <1>2, <1>3, <1>4, Known DEF Answering, Taken, setting
<1>8. CASE m + k = size["server"]
  <2>1. pc'["server"] = "loop" /\ moved'["server"] = 0
    BY <1>3, <1>8, Known
  <2>2. Answered'
    BY <1>2, <1>5, <1>6, <1>7, <1>8, <2>1 DEF Answering, Answered
  <2>3. QED BY <2>2 DEF Phase
<1>9. CASE m + k # size["server"]
  <2>1. pc'["server"] = "send" /\ moved'["server"] = m + k /\ "client" \in looping
    BY <1>3, <1>9, Known
  <2>2. a <= m + k
    BY <1>5
  <2>3. Answering'
    BY <1>2, <1>6, <1>7, <2>1, <2>2 DEF Answering
  <2>4. QED BY <2>3 DEF Phase
<1>10. QED BY <1>8, <1>9

(* A size is read from the first unit of a message. *)
LEMMA SizesChecked ==
  ASSUME Inductive, Regular, NEW p \in Ends, CheckSize(p)
  PROVE  Phase' /\ pc' = [pc EXCEPT ![p] = "body"]
<1>1. Phase /\ pc["server"] \in ServerPC /\ pc["client"] \in ClientPC
  BY DEF Inductive, Typed, TypeOK
<1>2. pc[p] = "size" /\ UNCHANGED <<setting, socket, buf, moved, expired, ops>>
  BY DEF CheckSize, Goto
<1>3. 1 \in 1..HdrLen /\ HdrLen \in Nat /\ MsgLen \in (HdrLen + 1)..MaxLen
  BY UdsAssumption
<1>4. /\ p = "server" => Taking
      /\ p = "client" => Answering \/ Answered
  BY <1>1, <1>2 DEF Phase, Quiet, Asked, Taking, Answering, Answered, Counting, Lost, Unaware, Reading
<1>5. buf[p][1].part = 1
  <2>1. CASE p = "server"
    <3>1. Filled(buf["server"], ops + 1, HdrLen, "client")
      BY <1>4, <2>1 DEF Taking
    <3>2. buf["server"][1] = [seq |-> ops + 1, part |-> 1, from |-> "client"]
      BY <1>3, <3>1 DEF Filled
    <3>3. QED BY <2>1, <3>2
  <2>2. CASE p = "client"
    <3>1. Taken("client") = HdrLen
      BY <1>2, <2>2 DEF Taken
    <3>2. Filled(buf["client"], ops + 1, HdrLen, "server")
      BY <1>4, <2>2, <3>1 DEF Answering, Answered
    <3>3. buf["client"][1] = [seq |-> ops + 1, part |-> 1, from |-> "server"]
      BY <1>3, <3>2 DEF Filled
    <3>4. QED BY <2>2, <3>3
  <2>3. QED BY <2>1, <2>2 DEF Ends
<1>6. pc' = [pc EXCEPT ![p] = "body"] /\ size' = [size EXCEPT ![p] = MsgLen]
  BY <1>5 DEF CheckSize, Goto
<1>7. UNCHANGED <<stream, looping, buf, moved, ops>>
  BY <1>2 DEF setting, socket
<1>8. /\ pc'[p] = "body" /\ size'[p] = MsgLen
      /\ \A q \in Ends : q # p => pc'[q] = pc[q] /\ size'[q] = size[q]
  BY <1>6, Known
<1>9. CASE p = "server"
  <2>1. Taking'
    BY <1>4, <1>7, <1>8, <1>9, Known DEF Taking
  <2>2. QED BY <1>6, <2>1 DEF Phase
<1>10. CASE p = "client"
  <2>1. moved["client"] = 0
    BY <1>2, <1>10 DEF Inductive, Typed, Cursor, CursorOf
  <2>2. Taken("client")' = Taken("client")
    BY <1>2, <1>3, <1>7, <1>8, <1>10, <2>1 DEF Taken
  <2>3. CASE Answering
    <3>1. Answering'
      BY <1>7, <1>8, <1>10, <2>2, <2>3, Known DEF Answering, Reading
    <3>2. QED BY <1>6, <3>1 DEF Phase
  <2>4. CASE Answered
    <3>1. Answered'
      BY <1>7, <1>8, <1>10, <2>2, <2>4, Known DEF Answered, Reading
    <3>2. QED BY <1>6, <3>1 DEF Phase
  <2>5. QED BY <1>4, <1>10, <2>3, <2>4
<1>11. QED BY <1>6, <1>9, <1>10 DEF Ends

(* The end of a stream is read between two calls, or of a call that was lost. *)
LEMMA StreamsEnd ==
  ASSUME Inductive, Regular, NEW p \in Ends, NEW part, NEW next, Part(p, part, next),
         ReceiveEnd(p, part, next)
  PROVE  /\ Phase'
         /\ pc' = [pc EXCEPT ![p] = End(p)]
         /\ p = "client" => Lost
<1>1. Phase /\ Alive
  BY DEF Inductive
<1>2. /\ pc[p] = part /\ stream[p] = <<>> /\ closed[Other(p)]
      /\ pc' = [pc EXCEPT ![p] = IF reset[p] \/ (part = "header" /\ moved[p] = 0) THEN End(p) ELSE next]
      /\ moved' = [moved EXCEPT ![p] = 0]
      /\ UNCHANGED <<stream, buf, size, ops, looping, cut>>
  BY DEF ReceiveEnd, Goto, setting
<1>3. /\ p = "server" => closed["client"]
      /\ p = "client" => closed["server"]
  BY <1>2 DEF Other
<1>4. CASE p = "server"
  <2>1. Quiet /\ part = "header" /\ moved["server"] = 0
    BY <1>1, <1>2, <1>3, <1>4, Known
       DEF Phase, Alive, Quiet, Asked, Taking, Answering, Answered, Counting, Lost, Reading, Unaware, Part
  <2>2. pc' = [pc EXCEPT !["server"] = "close"]
    BY <1>2, <1>4, <2>1 DEF End
  <2>3. Quiet'
    BY <1>2, <1>4, <2>1, <2>2, Known DEF Quiet, AllRead, Unaware
  <2>4. QED BY <1>4, <2>2, <2>3 DEF Phase, End
<1>5. CASE p = "client"
  <2>1. stream["client"] = <<>> /\ pc["client"] \in {"header", "body"}
        /\ pc["server"] \in {"free", "done"}
    BY <1>1, <1>2, <1>3, <1>5 DEF Alive, Part
  <2>2. ~Answered
    <3>1. SUFFICES ASSUME Answered PROVE FALSE
      OBVIOUS
    <3>2. Taken("client") < MsgLen
      BY <2>1, <3>1, UdsAssumption DEF Answered, Taken, Inductive, Typed, TypeOK, Cursor, CursorOf, Ends
    <3>3. Carries(stream["client"], ops + 1, Taken("client"), MsgLen, "server")
      BY <3>1 DEF Answered
    <3>4. Taken("client") \in Nat /\ MsgLen \in Nat /\ stream["client"] \in Seq(Unit)
          /\ Taken("client") # MsgLen
      BY <3>2, Known, UdsAssumption
    <3>5. QED BY <2>1, <3>3, <3>4, NothingCarried
  <2>3. Lost
    BY <1>1, <2>1, <2>2 DEF Phase, Quiet, Asked, Taking, Answering, Counting, Unaware
  <2>4. pc' = [pc EXCEPT !["client"] = "free"]
    BY <1>2, <1>5, <2>1, <2>3 DEF End, Lost
  <2>5. Quiet'
    <3>1. /\ pc'["client"] = "free" /\ pc'["server"] = pc["server"]
          /\ \A q \in Ends : moved'[q] = 0 /\ stream'[q] = <<>>
      BY <1>2, <1>5, <2>3, <2>4, Known DEF Lost, AllRead, Ends
    <3>2. QED BY <2>1, <3>1 DEF Quiet, AllRead
  <2>6. QED BY <1>5, <2>3, <2>4, <2>5 DEF Phase, End
<1>6. QED BY <1>4, <1>5 DEF Ends

(* Only a client sends to a peer that has gone, and that before a call. *)
LEMMA SendsFail ==
  ASSUME Inductive, Regular, NEW p \in Ends, SendFails(p)
  PROVE  Phase' /\ p = "client"
<1>1. Phase /\ Alive
  BY DEF Inductive
<1>2. /\ pc[p] = "send" /\ closed[Other(p)]
      /\ pc' = [pc EXCEPT ![p] = End(p)]
      /\ moved' = [moved EXCEPT ![p] = 0]
      /\ UNCHANGED <<stream, buf, size, ops, looping, cut>>
  BY DEF SendFails, Goto, setting, socket
<1>3. p # "server"
  BY <1>1, <1>2 DEF Phase, Alive, Other, Quiet, Asked, Taking, Answering, Answered, Counting, Lost,
                    Reading, Unaware
<1>4. p = "client" /\ pc' = [pc EXCEPT !["client"] = "free"] /\ pc["client"] = "send"
  BY <1>2, <1>3 DEF Ends, End
<1>5. Quiet
  BY <1>1, <1>4 DEF Phase, Asked, Taking, Answering, Answered, Counting, Lost, Reading
<1>6. Quiet'
  BY <1>2, <1>4, <1>5, Known DEF Quiet, AllRead
<1>7. QED BY <1>4, <1>6 DEF Phase

LEMMA ClientComposes ==
  ASSUME Inductive, Regular, ClientCompose
  PROVE  Phase'
<1>1. Phase /\ pc["client"] = "loop" /\ pc' = [pc EXCEPT !["client"] = "send"]
  BY DEF Inductive, ClientCompose, Goto
<1>2. Quiet
  BY <1>1 DEF Phase, Asked, Taking, Answering, Answered, Counting, Lost, Reading
<1>3. /\ UNCHANGED <<stream, moved, ops>>
      /\ size'["client"] = MsgLen
      /\ \A i \in 1..MaxLen :
           i <= MsgLen => buf'["client"][i] =
                            [seq |-> buf["client"][1].seq + 1, part |-> i, from |-> "client"]
  BY Known DEF ClientCompose, socket
<1>4. buf["client"][1].seq = ops
  BY <1>1, <1>2 DEF Quiet
<1>5. Filled(buf'["client"], ops + 1, MsgLen, "client")
  <2>1. \A i \in 1..MsgLen : i \in 1..MaxLen /\ i <= MsgLen
    BY UdsAssumption
  <2>2. QED BY <1>3, <1>4, <2>1 DEF Filled
<1>6. Quiet'
  BY <1>1, <1>2, <1>3, <1>5, Known DEF Quiet, AllRead
<1>7. QED BY <1>6 DEF Phase

LEMMA ClientCounts ==
  ASSUME Inductive, Regular, Count
  PROVE  Phase'
<1>1. Phase /\ pc["client"] = "count" /\ pc' = [pc EXCEPT !["client"] = "loop"]
  BY DEF Inductive, Count, Goto
<1>2. Counting /\ moved["client"] = 0
  BY <1>1, Known DEF Phase, Quiet, Asked, Taking, Answering, Answered, Lost, Reading,
                     Inductive, Typed, Cursor, CursorOf
<1>3. UNCHANGED <<stream, buf, moved>> /\ ops' = ops + 1
  BY DEF Count, socket, memory
<1>4. buf["client"][1] = [seq |-> ops + 1, part |-> 1, from |-> "server"]
  <2>1. 1 \in 1..MsgLen
    BY UdsAssumption
  <2>2. QED BY <1>2, <2>1 DEF Counting, Filled
<1>5. buf'["client"][1].seq = ops'
  BY <1>3, <1>4
<1>6. Quiet'
  BY <1>1, <1>2, <1>3, <1>5, Known DEF Counting, Quiet, AllRead, Unaware, Ends
<1>7. QED BY <1>6 DEF Phase

(* The server hangs up. *)
LEMMA ServerCloses ==
  ASSUME Inductive, Regular, CloseClientFd
  PROVE  Phase'
<1>1. Phase /\ pc["server"] = "close" /\ pc' = [pc EXCEPT !["server"] = "free"]
  BY DEF Inductive, CloseClientFd, Goto
<1>2. /\ stream'["server"] = <<>> /\ stream'["client"] = stream["client"]
      /\ UNCHANGED <<buf, size, moved, ops, looping, cut>>
  BY Known DEF CloseClientFd, Hangup, memory, setting, Ends
<1>3. pc'["server"] = "free" /\ pc'["client"] = pc["client"]
  BY <1>1, Known DEF Ends
<1>4. CASE Quiet
  <2>1. Quiet'
    BY <1>2, <1>3, <1>4 DEF Quiet, AllRead, Ends
  <2>2. QED BY <2>1 DEF Phase
<1>5. CASE Asked
  <2>1. Lost'
    BY <1>2, <1>3, <1>5 DEF Asked, Lost, AllRead, Ends
  <2>2. QED BY <2>1 DEF Phase
<1>6. CASE Answered
  <2>1. Taken("client")' = Taken("client")
    BY <1>2, <1>3 DEF Taken
  <2>2. Answered'
    BY <1>2, <1>3, <1>6, <2>1 DEF Answered
  <2>3. QED BY <2>2 DEF Phase
<1>7. CASE Counting
  <2>1. Counting'
    BY <1>2, <1>3, <1>7 DEF Counting, AllRead, Ends
  <2>2. QED BY <2>1 DEF Phase
<1>8. QED BY <1>1, <1>4, <1>5, <1>6, <1>7 DEF Phase, Taking, Answering, Lost

(* Steps of the server that touch neither streams nor buffers. *)
LEMMA ServerMoves ==
  ASSUME Inductive, Regular, Listen \/ Accept \/ ServerLoop \/ FreeServer
  PROVE  Phase'
<1>1. Phase
  BY DEF Inductive
<1>2. PICK to :
        /\ pc' = [pc EXCEPT !["server"] = to]
        /\ \/ pc["server"] = "listen" /\ to = "accept"
           \/ pc["server"] = "accept" /\ to = "loop"
           \/ pc["server"] = "loop" /\ to \in {"header", "close"}
           \/ pc["server"] = "free" /\ to = "done"
        /\ UNCHANGED <<stream, buf, size, moved, ops, looping, cut>>
  BY DEF Listen, Accept, ServerLoop, FreeServer, Goto, setting, socket, memory
<1>3. pc'["server"] = to /\ pc'["client"] = pc["client"]
  BY <1>2, Known DEF Ends
<1>4. CASE Quiet
  <2>1. Quiet'
    BY <1>2, <1>3, <1>4 DEF Quiet, AllRead, Unaware
  <2>2. QED BY <2>1 DEF Phase
<1>5. CASE Asked
  <2>1. Asked'
    BY <1>2, <1>3, <1>5 DEF Asked, Unaware
  <2>2. QED BY <2>1 DEF Phase
<1>6. CASE Answered
  <2>1. Taken("client")' = Taken("client")
    BY <1>2, <1>3 DEF Taken
  <2>2. Answered'
    BY <1>2, <1>3, <1>6, <2>1 DEF Answered
  <2>3. QED BY <2>2 DEF Phase
<1>7. CASE Counting
  <2>1. Counting'
    BY <1>2, <1>3, <1>7 DEF Counting, AllRead
  <2>2. QED BY <2>1 DEF Phase
<1>8. CASE Lost
  <2>1. Lost'
    BY <1>2, <1>3, <1>8 DEF Lost, AllRead
  <2>2. QED BY <2>1 DEF Phase
<1>9. QED BY <1>1, <1>2, <1>4, <1>5, <1>6, <1>7, <1>8 DEF Phase, Taking, Answering

(* Steps of the client between two calls. *)
LEMMA ClientMoves ==
  ASSUME Inductive, Regular, Connect \/ ClientStop \/ FreeClient
  PROVE  Phase'
<1>1. Phase
  BY DEF Inductive
<1>2. PICK to :
        /\ pc' = [pc EXCEPT !["client"] = to]
        /\ \/ pc["client"] = "connect" /\ to \in {"loop", "failed"}
           \/ pc["client"] = "loop" /\ to = "free"
           \/ pc["client"] = "free" /\ to = "done"
        /\ UNCHANGED <<buf, size, moved, ops>>
  BY DEF Connect, ClientStop, FreeClient, Goto, memory
<1>3. pc'["client"] = to /\ pc'["server"] = pc["server"]
  BY <1>2, Known DEF Ends
<1>4. Quiet
  BY <1>1, <1>2 DEF Phase, Asked, Taking, Answering, Answered, Counting, Lost, Reading
<1>5. \A p \in Ends : stream'[p] = <<>>
  BY <1>4, Known DEF Quiet, AllRead, Connect, ClientStop, FreeClient, Hangup, socket, Ends
<1>6. Quiet'
  BY <1>2, <1>3, <1>4, <1>5 DEF Quiet, AllRead
<1>7. QED BY <1>6 DEF Phase

(* Steps that move nobody. *)
LEMMA StandsStill ==
  ASSUME Phase, UNCHANGED <<stream, pc, buf, size, moved, ops, looping>>
  PROVE  Phase'
<1>1. Taken("client")' = Taken("client")
  BY DEF Taken
<1>2. QED
  BY <1>1 DEF Phase, Quiet, Asked, Taking, Answering, Answered, Counting, Lost, AllRead

LEMMA PhaseStep ==
  ASSUME Inductive, Regular, [Next]_vars
  PROVE  Phase'
<1>1. CASE UNCHANGED vars
  BY <1>1, StandsStill DEF Inductive, vars, setting, socket, memory
<1>2. CASE \E p \in Ends : Expire(p)
  BY <1>2, StandsStill DEF Inductive, Expire, setting, socket, memory
<1>3. ASSUME NEW p \in Ends, Send(p, IF p = "server" THEN "loop" ELSE "header")
      PROVE  Phase'
  BY <1>3, ServerSends, ClientSends DEF Ends
<1>4. ASSUME NEW p \in Ends, NEW part, NEW next, Part(p, part, next), Receive(p, part, next)
      PROVE  Phase'
  BY <1>4, ServerReceives, ClientReceives DEF Ends
<1>5. QED
  BY <1>1, <1>2, <1>3, <1>4, Steps, StreamsEnd, SendsFail, SizesChecked, ClientComposes, ClientCounts,
     ServerCloses, ServerMoves, ClientMoves

(* The setting is the same at every step, and so is the question whether it is regular. *)
LEMMA SettingStays ==
  ASSUME [Next]_vars
  PROVE  setting' = setting /\ Regular' = Regular
<1>1. setting' = setting
  <2>1. CASE UNCHANGED vars
    BY <2>1 DEF vars
  <2>2. CASE Listen \/ Connect \/ Accept \/ CloseClientFd \/ FreeServer \/ FreeClient
    BY <2>2 DEF Listen, Connect, Accept, CloseClientFd, FreeServer, FreeClient
  <2>3. CASE ServerLoop \/ ClientStop \/ ClientCompose \/ Count
    BY <2>3 DEF ServerLoop, ClientStop, ClientCompose, Count
  <2>4. \A p, next : Send(p, next) => setting' = setting
    BY DEF Send
  <2>5. \A p : SendFails(p) \/ CheckSize(p) \/ Expire(p) => setting' = setting
    BY DEF SendFails, CheckSize, Expire
  <2>6. \A p, part, next : Receive(p, part, next) => setting' = setting
    BY DEF Receive
  <2>7. \A p, part, next : ReceiveEnd(p, part, next) => setting' = setting
    BY DEF ReceiveEnd
  <2>8. QED BY <2>1, <2>2, <2>3, <2>4, <2>5, <2>6, <2>7, Steps
<1>2. QED BY <1>1 DEF setting, Regular

LEMMA AliveStep ==
  ASSUME Inductive, [Next]_vars
  PROVE  Alive'
<1>1. Typed /\ Alive /\ DOMAIN pc = Ends /\ DOMAIN closed = Ends
  BY DEF Inductive, Typed, TypeOK
<1>2. "server" \in Ends /\ "client" \in Ends
  BY DEF Ends
<1>3. CASE Listen
  BY <1>1, <1>2, <1>3 DEF Listen, Goto, Alive
<1>4. CASE Connect
  BY <1>1, <1>2, <1>4 DEF Connect, Goto, Alive
<1>5. CASE Accept \/ ServerLoop
  BY <1>1, <1>2, <1>5 DEF Accept, ServerLoop, Goto, Alive, socket
<1>6. CASE CloseClientFd
  BY <1>1, <1>2, <1>6 DEF CloseClientFd, Hangup, Goto, Alive
<1>7. CASE FreeServer
  BY <1>1, <1>2, <1>7 DEF FreeServer, Goto, Alive
<1>8. CASE FreeClient
  BY <1>1, <1>2, <1>8 DEF FreeClient, Hangup, Goto, Alive
<1>9. CASE ClientStop \/ ClientCompose \/ Count
  BY <1>1, <1>2, <1>9 DEF ClientStop, ClientCompose, Count, Goto, Alive, socket
<1>10. ASSUME NEW p \in Ends, NEW to, pc' = [pc EXCEPT ![p] = to], UNCHANGED <<closed, path>>,
              pc[p] \in {"send", "header", "size", "body"},
              to \in {"close", "loop", "header", "size", "body", "send", "count"}
                     \/ (p = "client" /\ to = "free")
       PROVE  Alive'
  BY <1>1, <1>2, <1>10 DEF Alive, Ends
<1>11. ASSUME NEW p \in Ends, Send(p, IF p = "server" THEN "loop" ELSE "header")
       PROVE  Alive'
  <2>1. PICK to \in {"loop", "header", "send"} : pc' = [pc EXCEPT ![p] = to]
    BY <1>1, <1>11, SendEffect DEF Sent
  <2>2. pc[p] = "send" /\ UNCHANGED <<closed, path>>
    BY <1>11 DEF Send
  <2>3. QED BY <1>10, <2>1, <2>2
<1>12. ASSUME NEW p \in Ends, SendFails(p)
       PROVE  Alive'
  BY <1>10, <1>12 DEF SendFails, Goto, End, Ends, socket
<1>13. ASSUME NEW p \in Ends, CheckSize(p)
       PROVE  Alive'
  BY <1>10, <1>13 DEF CheckSize, Goto, End, Ends, socket
<1>14. ASSUME NEW p \in Ends, NEW part, NEW next, Part(p, part, next), Receive(p, part, next)
       PROVE  Alive'
  <2>1. PICK to \in {"header", "body", "size", "send", "count"} : pc' = [pc EXCEPT ![p] = to]
    BY <1>14 DEF Receive, Part
  <2>2. pc[p] \in {"header", "body"} /\ UNCHANGED <<closed, path>>
    BY <1>14 DEF Receive, Part
  <2>3. QED BY <1>10, <2>1, <2>2
<1>15. ASSUME NEW p \in Ends, NEW part, NEW next, Part(p, part, next), ReceiveEnd(p, part, next)
       PROVE  Alive'
  <2>1. PICK to : /\ pc' = [pc EXCEPT ![p] = to]
                  /\ to \in {"close", "size", "send", "count"} \/ (p = "client" /\ to = "free")
    BY <1>15 DEF ReceiveEnd, Goto, Part, End, Ends
  <2>2. pc[p] \in {"header", "body"} /\ UNCHANGED <<closed, path>>
    BY <1>15 DEF ReceiveEnd, Goto, Part
  <2>3. QED BY <1>10, <2>1, <2>2
<1>16. CASE UNCHANGED vars \/ \E p \in Ends : Expire(p)
  BY <1>1, <1>16 DEF Expire, vars, socket, Alive
<1>17. QED
  BY <1>3, <1>4, <1>5, <1>6, <1>7, <1>8, <1>9, <1>11, <1>12, <1>13, <1>14, <1>15, <1>16, Steps

(***************************************************************************)
(* The inductive invariant: types, who has closed, and the phase that a    *)
(* call of run_uds_*_client is in, which says what is in both streams and  *)
(* both buffers.                                                           *)
(***************************************************************************)
THEOREM Invariant == Spec => []Inductive
<1>1. Init => Inductive
  <2>1. SUFFICES ASSUME Init PROVE Inductive
    OBVIOUS
  <2>2. Alive
    BY <2>1 DEF Init, Alive, Ends
  <2>3. buf["client"][1].seq = ops
    <3>1. 1 \in 1..MaxLen
      BY UdsAssumption
    <3>2. QED BY <2>1, <3>1 DEF Init, NoUnit, Ends
  <2>4. Quiet
    BY <2>1, <2>3 DEF Init, Quiet, AllRead, Ends
  <2>5. QED BY <2>1, <2>2, <2>4, InitTyped DEF Inductive, Phase
<1>2. Inductive /\ [Next]_vars => Inductive'
  BY StepTyped, AliveStep, PhaseStep, SettingStays DEF Inductive
<1>3. QED BY <1>1, <1>2, PTL DEF Spec

(***************************************************************************)
(* What the server answers and what the client counts is the whole message *)
(* of the call, and no unit of a call is left in a stream of               *)
(* run_uds_*_server and run_uds_*_client when the next one begins.         *)
(***************************************************************************)
THEOREM FramesInStep == Spec => []InStep
<1>1. Inductive => InStep
  <2>1. SUFFICES ASSUME Inductive, Regular
                 PROVE  /\ pc["client"] = "loop" => \A p \in Ends : stream[p] = <<>>
                        /\ pc["client"] = "count" => Filled(buf["client"], ops + 1, MsgLen, "server")
                        /\ pc["server"] = "send" => Filled(buf["server"], ops + 1, MsgLen, "client")
    BY DEF InStep, IsMessage, Filled
  <2>2. Phase
    BY <2>1 DEF Inductive
  <2>3. QED
    BY <2>2 DEF Phase, Quiet, Asked, Taking, Answering, Answered, Counting, Lost, AllRead, Reading, Unaware
<1>2. QED BY <1>1, Invariant, PTL

-----------------------------------------------------------------------------
(* Nobody waits for what never comes.                                      *)

(* p is in a recv that finds neither data nor the end of the stream. *)
InRecv(p) ==
  /\ pc[p] \in {"header", "body"}
  /\ stream[p] = <<>>
  /\ ~closed[Other(p)]

NoMutualRecv == Regular => ~(InRecv("server") /\ InRecv("client"))

(***************************************************************************)
(* Server and client never both wait in a recv for what the other sends:   *)
(* no size that run_uds_*_server or run_uds_*_client reads asks for more   *)
(* than the peer has sent.                                                 *)
(***************************************************************************)
THEOREM SomebodySends == Spec => []NoMutualRecv
<1>1. Inductive => NoMutualRecv
  <2> SUFFICES ASSUME Inductive, Regular, InRecv("server"), InRecv("client") PROVE FALSE
    BY DEF NoMutualRecv
  <2>1. /\ stream["server"] = <<>> /\ stream["client"] = <<>>
        /\ pc["server"] \in {"header", "body"} /\ pc["client"] \in {"header", "body"}
    BY DEF InRecv
  <2>2. CASE Asked \/ Taking
    <3>1. Len(stream["server"]) = 0
      BY <2>1
    <3>2. Len(stream["server"]) = MsgLen \/ Len(stream["server"]) = MsgLen - HdrLen
      BY <2>2, UdsAssumption DEF Asked, Taking, Carries
    <3> QED BY <3>1, <3>2, UdsAssumption
  <2>3. CASE Answered
    <3>1. Len(stream["client"]) = 0
      BY <2>1
    <3>2. Len(stream["client"]) = MsgLen - Taken("client")
      BY <2>3 DEF Answered, Carries
    <3>3. Taken("client") \in Nat /\ Taken("client") < MsgLen
      <4>1. /\ moved["client"] \in Nat
            /\ pc["client"] = "header" => moved["client"] < HdrLen
            /\ pc["client"] = "body" => moved["client"] < size["client"] - HdrLen
        BY DEF Inductive, Typed, TypeOK, Cursor, CursorOf, Ends
      <4>2. pc["client"] = "body" => size["client"] = MsgLen
        BY <2>3 DEF Answered
      <4> QED BY <2>1, <4>1, <4>2, UdsAssumption DEF Taken
    <3> QED BY <3>1, <3>2, <3>3, UdsAssumption
  <2>4. Quiet \/ Asked \/ Taking \/ Answering \/ Answered \/ Counting \/ Lost
    BY DEF Inductive, Phase
  <2> QED BY <2>1, <2>2, <2>3, <2>4 DEF Quiet, Answering, Counting, Lost
<1> QED BY <1>1, Invariant, PTL

-----------------------------------------------------------------------------
(* The transport is an echo service.                                       *)

Left == pc["client"] \in {"free", "done", "failed"}

(* The steps of the service, in terms of the transport. *)
LEMMA EchoSteps ==
  ASSUME Regular, Regular',
         \/ /\ Call' = Call /\ closed'["server"] = closed["server"]
            /\ ops' = ops /\ Left' = Left
         \/ /\ ~closed["server"] /\ closed'["server"] = TRUE
            /\ Call' = Call /\ ops' = ops /\ Left' = Left
         \/ /\ closed'["server"] = closed["server"]
            /\ \/ /\ ~Left /\ ~Left' /\ ops' = ops
                  /\ Call = "none" /\ Call' = "sent"
               \/ /\ ~closed["server"] /\ Left' = Left /\ ops' = ops
                  /\ Call = "sent" /\ Call' = "answered"
               \/ /\ Call = "answered" /\ Call' = "none" /\ ops' = ops + 1 /\ Left' = Left
               \/ /\ ~Left /\ Left' /\ ops' = ops
                  /\ Call # "sent" \/ closed["server"]
                  /\ Call' = "none"
  PROVE  [Echo!Next]_(Echo!vars)
<1> DEFINE a == IF Regular THEN Call ELSE "none"
           b == Regular /\ closed["server"]
           d == IF Regular THEN ops ELSE 0
           e == Regular /\ pc["client"] \in {"free", "done", "failed"}
<1>1. /\ a = Call /\ a' = Call' /\ (b <=> closed["server"]) /\ (b' <=> closed'["server"])
      /\ d = ops /\ d' = ops' /\ (e <=> Left) /\ (e' <=> Left')
  BY DEF Left
<1>2. (b \in BOOLEAN) /\ (b' \in BOOLEAN) /\ (e \in BOOLEAN) /\ (e' \in BOOLEAN)
  OBVIOUS
<1>3. QED
  BY <1>1, <1>2
     DEF Echo!Next, Echo!vars, Echo!Send, Echo!Answer, Echo!Complete, Echo!CompleteUnanswered,
         Echo!Close, Echo!Leave, Left

(* What is not the client's and does not close leaves the service as it is. *)
LEMMA ServiceUnaware ==
  ASSUME Regular, Regular', pc'["client"] = pc["client"], stream'["client"] = stream["client"],
         moved'["client"] = moved["client"], closed'["server"] = closed["server"], ops' = ops
  PROVE  [Echo!Next]_(Echo!vars)
<1>1. Call' = Call /\ Left' = Left
  BY DEF Call, Left
<1>2. QED BY <1>1, EchoSteps

LEMMA ServerEcho ==
  ASSUME Inductive, Inductive', Regular, Regular',
         \/ Listen \/ Accept \/ ServerLoop \/ CloseClientFd \/ FreeServer
         \/ Send("server", "loop") \/ SendFails("server") \/ CheckSize("server")
         \/ \E part, next : Part("server", part, next) /\ Receive("server", part, next)
         \/ \E part, next : Part("server", part, next) /\ ReceiveEnd("server", part, next)
  PROVE  [Echo!Next]_(Echo!vars)
<1>1. "server" \in Ends /\ Typed /\ Other("server") = "client"
  BY Known DEF Inductive, Other
<1>2. CASE CloseClientFd
  <2>1. pc["server"] = "close" /\ pc' = [pc EXCEPT !["server"] = "free"]
    BY <1>2 DEF CloseClientFd, Goto
  <2>2. /\ pc'["client"] = pc["client"] /\ stream'["client"] = stream["client"]
        /\ moved'["client"] = moved["client"] /\ ops' = ops
    BY <1>2, <2>1, Known DEF CloseClientFd, Hangup, memory, Ends
  <2>3. ~closed["server"] /\ closed'["server"] = TRUE
    BY <1>2, <2>1 DEF Inductive, Alive, Typed, TypeOK, CloseClientFd, Hangup, Ends
  <2>4. Call' = Call /\ Left' = Left
    BY <2>2 DEF Call, Left
  <2>5. QED BY <2>2, <2>3, <2>4, EchoSteps
<1>3. CASE Send("server", "loop")
  <2>1. PICK k \in 1..(size["server"] - moved["server"]) :
          /\ Sending("server", k) \in [1..k -> Unit]
          /\ stream' = [stream EXCEPT !["client"] = stream["client"] \o Sending("server", k)]
          /\ \E to : pc' = [pc EXCEPT !["server"] = to]
          /\ \E n : moved' = [moved EXCEPT !["server"] = n]
    <3>1. PICK k \in 1..(size["server"] - moved["server"]) : Sent("server", "client", "loop", k)
      BY <1>1, <1>3, SendEffect
    <3>2. QED BY <3>1 DEF Sent
  <2>2. /\ pc["server"] = "send" /\ UNCHANGED <<closed, ops>>
        /\ pc'["client"] = pc["client"] /\ moved'["client"] = moved["client"]
    BY <1>3, <2>1, Known DEF Send, Ends
  <2>3. Answering
    BY <2>2 DEF Inductive, Phase, Quiet, Asked, Taking, Answered, Counting, Lost, Unaware
  <2>4. stream'["client"] # <<>>
    <3>1. stream'["client"] = stream["client"] \o Sending("server", k)
      BY <2>1, Known
    <3>2. k \in Nat /\ k > 0 /\ stream["client"] \in Seq(Unit) /\ Len(stream["client"]) \in Nat
      BY Known
    <3>3. Len(stream'["client"]) = Len(stream["client"]) + k
      BY <2>1, <3>1, <3>2, AddUnits
    <3>4. Len(stream'["client"]) # 0
      BY <3>2, <3>3
    <3>5. QED BY <3>4, EmptySeq
  <2>5. Call' = "answered" /\ Call \in {"sent", "answered"} /\ Left' = Left
    BY <2>2, <2>3, <2>4 DEF Call, Left, Answering, Reading
  <2>6. ~closed["server"]
    BY <2>2 DEF Inductive, Alive
  <2>7. QED BY <2>2, <2>5, <2>6, EchoSteps
<1>4. CASE \/ Listen \/ Accept \/ ServerLoop \/ FreeServer
           \/ SendFails("server") \/ CheckSize("server")
           \/ \E part, next : Part("server", part, next) /\ Receive("server", part, next)
           \/ \E part, next : Part("server", part, next) /\ ReceiveEnd("server", part, next)
  <2>1. /\ pc'["client"] = pc["client"] /\ stream'["client"] = stream["client"]
        /\ moved'["client"] = moved["client"] /\ closed'["server"] = closed["server"] /\ ops' = ops
    BY <1>4, Known DEF Listen, Accept, ServerLoop, FreeServer, SendFails, CheckSize, Receive,
                       ReceiveEnd, Goto, memory, socket, Ends
  <2>2. QED BY <2>1, ServiceUnaware
<1>5. QED BY <1>2, <1>3, <1>4

LEMMA ClientEcho ==
  ASSUME Inductive, Inductive', Regular, Regular',
         \/ Connect \/ ClientStop \/ ClientCompose \/ Count \/ FreeClient
         \/ Send("client", "header") \/ SendFails("client") \/ CheckSize("client")
         \/ \E part, next : Part("client", part, next) /\ Receive("client", part, next)
         \/ \E part, next : Part("client", part, next) /\ ReceiveEnd("client", part, next)
  PROVE  [Echo!Next]_(Echo!vars)
<1>1. "client" \in Ends /\ Typed /\ Phase /\ Phase'
  BY Known DEF Inductive
<1>2. CASE Connect \/ ClientStop \/ ClientCompose \/ FreeClient \/ SendFails("client")
  <2>1. PICK to :
          /\ pc' = [pc EXCEPT !["client"] = to]
          /\ \/ pc["client"] = "connect" /\ to \in {"loop", "failed"}
             \/ pc["client"] = "loop" /\ to \in {"send", "free"}
             \/ pc["client"] = "send" /\ to = "free"
             \/ pc["client"] = "free" /\ to = "done"
          /\ ops' = ops
    BY <1>2 DEF Connect, ClientStop, ClientCompose, FreeClient, SendFails, Goto, End
  <2>2. closed'["server"] = closed["server"]
    BY <1>2, Known DEF Connect, ClientStop, ClientCompose, FreeClient, SendFails, Hangup, socket, Ends,
                       Inductive, Typed, TypeOK
  <2>3. pc'["client"] = to
    BY <2>1, Known
  <2>4. Call = "none" /\ Call' = "none"
    BY <2>1, <2>3 DEF Call
  <2>5. Left' = Left \/ (~Left /\ Left')
    BY <2>1, <2>3 DEF Left
  <2>6. QED BY <2>1, <2>2, <2>4, <2>5, EchoSteps
<1>3. CASE Count
  <2>1. pc["client"] = "count" /\ pc'["client"] = "loop"
    BY <1>3, Known DEF Count, Goto
  <2>2. closed' = closed /\ ops' = ops + 1
    BY <1>3 DEF Count, socket
  <2>3. Call = "answered" /\ Call' = "none" /\ Left' = Left
    BY <2>1 DEF Call, Left
  <2>4. QED BY <2>2, <2>3, EchoSteps
<1>4. CASE Send("client", "header")
  <2>1. pc["client"] = "send" /\ UNCHANGED <<closed, ops>>
    BY <1>4 DEF Send
  <2>2. Quiet
    BY <1>1, <2>1 DEF Phase, Asked, Taking, Answering, Answered, Counting, Lost, Reading
  <2>3. pc'["client"] \in {"header", "send"} /\ stream'["client"] = stream["client"]
    BY <1>4, Known DEF Send, Other, Ends
  <2>4. CASE pc'["client"] = "send"
    BY <2>1, <2>4, EchoSteps DEF Call, Left
  <2>5. CASE pc'["client"] = "header"
    <3>1. stream'["client"] = <<>>
      BY <1>1, <2>2, <2>3 DEF Quiet, AllRead
    <3>2. moved'["client"] = 0
      BY <1>4, <2>5, <2>1, Known DEF Send
    <3>3. Call = "none" /\ Call' = "sent" /\ ~Left /\ ~Left'
      BY <2>1, <2>5, <3>1, <3>2 DEF Call, Left
    <3>4. QED BY <2>1, <3>3, EchoSteps
  <2>6. QED BY <2>3, <2>4, <2>5
<1>5. CASE CheckSize("client")
  <2>1. pc["client"] = "size" /\ pc'["client"] = "body"
    BY <1>1, <1>5, Known, SizesChecked DEF CheckSize, Goto
  <2>2. UNCHANGED <<closed, ops>>
    BY <1>5 DEF CheckSize, socket
  <2>3. Call = "answered" /\ Call' = "answered" /\ Left' = Left
    BY <2>1 DEF Call, Left
  <2>4. QED BY <2>2, <2>3, EchoSteps
<1>6. ASSUME NEW part, NEW next, Part("client", part, next), Receive("client", part, next)
      PROVE  [Echo!Next]_(Echo!vars)
  <2>1. PICK n \in 1..Len(stream["client"]) :
          LET complete == "client" \notin looping \/ moved["client"] + n = Length("client", part)
          IN  /\ pc["client"] = part
              /\ pc' = [pc EXCEPT !["client"] = IF complete THEN next ELSE part]
              /\ moved' = [moved EXCEPT !["client"] = IF complete THEN 0 ELSE moved["client"] + n]
              /\ UNCHANGED <<closed, ops>>
    BY <1>1, <1>6, ReceiveEffect
  <2>2. stream["client"] # <<>>
    BY <1>6 DEF Receive
  <2>3. /\ pc["client"] \in {"header", "body"}
        /\ \/ pc'["client"] \in {"size", "body", "count"}
           \/ pc'["client"] = "header" /\ moved'["client"] > 0
    BY <1>6, <2>1, Known DEF Part
  <2>4. Call = "answered" /\ Call' = "answered" /\ Left' = Left
    BY <2>2, <2>3 DEF Call, Left
  <2>5. QED BY <2>1, <2>4, EchoSteps
<1>7. ASSUME NEW part, NEW next, Part("client", part, next), ReceiveEnd("client", part, next)
      PROVE  [Echo!Next]_(Echo!vars)
  <2>1. Lost /\ pc'["client"] = "free"
    BY <1>1, <1>7, Known, StreamsEnd DEF End
  <2>2. UNCHANGED <<closed, ops>>
    BY <1>7 DEF ReceiveEnd
  <2>3. closed["server"]
    BY <2>1 DEF Lost, Inductive, Alive
  <2>4. ~Left /\ Left' /\ Call' = "none"
    BY <2>1 DEF Lost, Left, Call
  <2>5. QED BY <2>2, <2>3, <2>4, EchoSteps
<1>8. QED BY <1>2, <1>3, <1>4, <1>5, <1>6, <1>7

(***************************************************************************)
(* Each socket transport implements the echo service whenever data that is *)
(* cut is joined again, and counts no call that was not answered.          *)
(***************************************************************************)
THEOREM EchoRefinement == Spec => EchoSpec
<1>1. Init => Echo!Init
  BY DEF Init, Echo!Init, Call, Ends
<1>2. Inductive /\ Inductive' /\ [Next]_vars => [Echo!Next]_(Echo!vars)
  <2>1. SUFFICES ASSUME Inductive, Inductive', [Next]_vars PROVE [Echo!Next]_(Echo!vars)
    OBVIOUS
  <2>2. Regular' = Regular
    BY <2>1, SettingStays
  <2>3. CASE ~Regular
    BY <2>2, <2>3 DEF Echo!vars
  <2>4. CASE Regular
    <3>1. Regular'
      BY <2>2, <2>4
    <3>2. CASE UNCHANGED vars \/ \E p \in Ends : Expire(p)
      BY <2>4, <3>1, <3>2, ServiceUnaware DEF Expire, vars, socket, memory
    <3>3. CASE \E p \in Ends :
                 \/ Send(p, IF p = "server" THEN "loop" ELSE "header")
                 \/ SendFails(p)
                 \/ CheckSize(p)
                 \/ \E part, next : Part(p, part, next) /\ Receive(p, part, next)
                 \/ \E part, next : Part(p, part, next) /\ ReceiveEnd(p, part, next)
      BY <2>1, <2>4, <3>1, <3>3, ServerEcho, ClientEcho DEF Ends
    <3>4. CASE \/ Listen \/ Connect \/ Accept \/ CloseClientFd \/ FreeServer \/ FreeClient
               \/ ServerLoop \/ ClientStop \/ ClientCompose \/ Count
      BY <2>1, <2>4, <3>1, <3>4, ServerEcho, ClientEcho
    <3>5. QED BY <2>1, <3>2, <3>3, <3>4, Steps
  <2>5. QED BY <2>3, <2>4
<1>3. QED BY <1>1, <1>2, Invariant, PTL DEF Spec, EchoSpec, Echo!Spec
=============================================================================
