------------------------ MODULE CommandProtocolProofs ------------------------
(***************************************************************************)
(* Proofs about CommandProtocol for any clients, any lines, any limit and  *)
(* any way of cutting a line. The types hold for clients however far ahead *)
(* of their answers. For clients that wait for each answer (Window = 1)    *)
(* the server never raises SIGPIPE, disconnects nobody but the sender of   *)
(* an overlong line, logs a write before it answers it, and implements     *)
(* KVService. All of this rests on what is still under way for a client:   *)
(* a newline is the last thing it has sent, so nothing of the stream is    *)
(* left once a command is complete, and that command is the client's line. *)
(***************************************************************************)
EXTENDS CommandProtocol, FiniteSetTheorems, SequenceTheorems, TLAPS

Bytes == Words \union {Newline}

(* The types the argument needs. *)
Typed ==
    /\ client \in [Clients -> {"in", "left"}]
    /\ stream \in [Clients -> Seq(Bytes)]
    /\ buffer \in [Clients -> Seq(Words)]
    /\ pc \in [Clients -> {"idle", "execute", "log", "send"}]
    /\ open \in [Clients -> BOOLEAN]
    /\ waiting = [c \in Clients |-> waiting[c]]
    /\ inbox = [c \in Clients |-> inbox[c]]

(* At most one line and one answer are under way. *)
OneAtATime(c) ==
    /\ waiting[c] = <<>> \/ \E l \in Lines : waiting[c] = Append(<<>>, l)
    /\ inbox[c] = <<>> \/ \E a : inbox[c] = Append(<<>>, a)

(* A newline is the last thing a client has sent. *)
NewlineLast(c) == \A i \in 1 .. Len(stream[c]) - 1 : stream[c][i] # Newline

Quiet(c) == stream[c] = <<>> /\ buffer[c] = <<>>

(* Nothing is left to receive while a command is carried out. *)
HandlerAlone(c) ==
    pc[c] # "idle" => Quiet(c) /\ waiting[c] # <<>> /\ inbox[c] = <<>> /\ open[c]

(* How far the line of a client has come. *)
LineUnderWay(c) ==
    /\ waiting[c] = <<>> => Quiet(c) /\ inbox[c] = <<>>
    /\ inbox[c] # <<>> => Quiet(c)
    /\ waiting[c] # <<>> => Len(buffer[c]) + Len(stream[c]) <= Len(Head(waiting[c])) + 1
    /\ client[c] = "in" /\ ~open[c] =>
         waiting[c] # <<>> /\ inbox[c] = <<>> /\ Len(Head(waiting[c])) + 1 > MaxBuffer

(* Nothing is left of a client whose host has refused an answer. *)
ResetIsOver(c) == c \in reset => client[c] = "left" /\ stream[c] = <<>> /\ pc[c] = "idle"

Good(c) == OneAtATime(c) /\ NewlineLast(c) /\ HandlerAlone(c) /\ LineUnderWay(c) /\ ResetIsOver(c)

IInv == Typed /\ up = TRUE /\ \A c \in Clients : Good(c)

-----------------------------------------------------------------------------
(* Sequences. *)

(* A piece of a stream and what remains. *)
LEMMA Cut ==
    ASSUME NEW s \in Seq(Bytes), NEW n \in Nat, n <= Len(s)
    PROVE  /\ SubSeq(s, 1, n) \in Seq(Bytes) /\ Len(SubSeq(s, 1, n)) = n
           /\ \A i \in 1 .. n : SubSeq(s, 1, n)[i] = s[i]
           /\ SubSeq(s, n + 1, Len(s)) \in Seq(Bytes)
           /\ Len(SubSeq(s, n + 1, Len(s))) = Len(s) - n
           /\ \A i \in 1 .. Len(s) - n : SubSeq(s, n + 1, Len(s))[i] = s[n + i]
           /\ n = Len(s) => SubSeq(s, n + 1, Len(s)) = <<>>
<1>1. Len(s) \in Nat /\ \A i \in 1 .. Len(s) : s[i] \in Bytes
  BY LenProperties, ElementOfSeq
<1>2. /\ SubSeq(s, 1, n) \in Seq(Bytes) /\ Len(SubSeq(s, 1, n)) = IF 1 <= n THEN n - 1 + 1 ELSE 0
      /\ \A i \in 1 .. n - 1 + 1 : SubSeq(s, 1, n)[i] = s[1 + i - 1]
  <2>1. \A i \in 1 .. n : s[i] \in Bytes
    BY <1>1
  <2> QED
    BY <2>1, SubSeqProperties
<1>3. /\ SubSeq(s, n + 1, Len(s)) \in Seq(Bytes)
      /\ Len(SubSeq(s, n + 1, Len(s))) = IF n + 1 <= Len(s) THEN Len(s) - (n + 1) + 1 ELSE 0
      /\ \A i \in 1 .. Len(s) - (n + 1) + 1 : SubSeq(s, n + 1, Len(s))[i] = s[(n + 1) + i - 1]
  <2>1. \A i \in n + 1 .. Len(s) : s[i] \in Bytes
    BY <1>1
  <2>2. n + 1 \in Int /\ Len(s) \in Int
    BY <1>1
  <2> QED
    BY <2>1, <2>2, SubSeqProperties
<1>4. n = Len(s) => SubSeq(s, n + 1, Len(s)) = <<>>
  <2> SUFFICES ASSUME n = Len(s)
               PROVE  SubSeq(s, n + 1, Len(s)) = <<>>
    OBVIOUS
  <2>1. n + 1 \in Int /\ Len(s) \in Int /\ Len(s) < n + 1
    BY <1>1
  <2> QED
    BY <2>1, SubSeqEmpty
<1>5. Len(SubSeq(s, 1, n)) = n /\ Len(SubSeq(s, n + 1, Len(s))) = Len(s) - n
  BY <1>1, <1>2, <1>3
<1>6. \A i \in 1 .. n : SubSeq(s, 1, n)[i] = s[i]
  <2> TAKE i \in 1 .. n
  <2>1. 1 + i - 1 = i /\ i \in 1 .. n - 1 + 1
    OBVIOUS
  <2> QED
    BY <1>2, <2>1
<1>7. \A i \in 1 .. Len(s) - n : SubSeq(s, n + 1, Len(s))[i] = s[n + i]
  <2> TAKE i \in 1 .. Len(s) - n
  <2>1. (n + 1) + i - 1 = n + i /\ i \in 1 .. Len(s) - (n + 1) + 1
    BY <1>1
  <2> QED
    BY <1>3, <2>1
<1> QED
  BY <1>2, <1>3, <1>4, <1>5, <1>6, <1>7

(* A message without a newline consists of words. *)
LEMMA OnlyWords ==
    ASSUME NEW s \in Seq(Bytes), ~Contains(s, Newline)
    PROVE  s \in Seq(Words)
<1>1. Len(s) \in Nat /\ s \in [1 .. Len(s) -> Bytes] /\ DOMAIN s = 1 .. Len(s)
  BY LenProperties
<1>2. s \in [1 .. Len(s) -> Words]
  BY <1>1 DEF Contains, Bytes
<1> QED
  BY <1>1, <1>2, SeqDef

(* What a recv of n units makes of commandBuffer: a newline in it is one     *)
(* that has just come in.                                                    *)
LEMMA CollectedHas ==
    ASSUME NEW c, stream[c] \in Seq(Bytes), buffer[c] \in Seq(Words),
           NEW n \in Nat, n <= Len(stream[c])
    PROVE  /\ Collected(c, n) \in Seq(Bytes)
           /\ Len(Collected(c, n)) = Len(buffer[c]) + n
           /\ \A i \in 1 .. Len(buffer[c]) + n : Collected(c, n)[i] =
                IF i <= Len(buffer[c]) THEN buffer[c][i] ELSE stream[c][i - Len(buffer[c])]
           /\ Contains(Collected(c, n), Newline) => \E i \in 1 .. n : stream[c][i] = Newline
<1> DEFINE s == stream[c]
           piece == SubSeq(s, 1, n)
<1>1. s \in Seq(Bytes) /\ buffer[c] \in Seq(Words) /\ Words \subseteq Bytes
  BY DEF Bytes
<1>2. buffer[c] \in Seq(Bytes)
  BY <1>1, SeqMonotonic
<1>3. /\ piece \in Seq(Bytes) /\ Len(piece) = n /\ \A i \in 1 .. n : piece[i] = s[i]
  BY <1>1, Cut
<1> HIDE DEF piece
<1>4. /\ buffer[c] \o piece \in Seq(Bytes) /\ Len(buffer[c] \o piece) = Len(buffer[c]) + n
      /\ \A i \in 1 .. Len(buffer[c]) + n : (buffer[c] \o piece)[i] =
           IF i <= Len(buffer[c]) THEN buffer[c][i] ELSE piece[i - Len(buffer[c])]
  BY <1>2, <1>3, ConcatProperties
<1>5. Collected(c, n) = buffer[c] \o piece
  BY DEF Collected, piece
<1>6. Len(buffer[c]) \in Nat /\ Len(s) \in Nat
  BY <1>1, LenProperties
<1>7. ASSUME NEW i \in 1 .. Len(buffer[c]) + n
      PROVE  Collected(c, n)[i] =
               IF i <= Len(buffer[c]) THEN buffer[c][i] ELSE s[i - Len(buffer[c])]
  <2>1. ~(i <= Len(buffer[c])) => i - Len(buffer[c]) \in 1 .. n
    BY <1>6
  <2> QED
    BY <1>3, <1>4, <1>5, <2>1
<1>8. ASSUME Contains(Collected(c, n), Newline)
      PROVE  \E i \in 1 .. n : s[i] = Newline
  <2>1. DOMAIN Collected(c, n) = 1 .. Len(buffer[c]) + n
    BY <1>4, <1>5, LenProperties
  <2>2. PICK i \in 1 .. Len(buffer[c]) + n : Collected(c, n)[i] = Newline
    BY <1>8, <2>1 DEF Contains
  <2>3. ~(i <= Len(buffer[c]))
    <3> SUFFICES ASSUME i <= Len(buffer[c])
                 PROVE  FALSE
      OBVIOUS
    <3>1. i \in 1 .. Len(buffer[c]) /\ buffer[c][i] = Newline
      BY <1>6, <1>7, <2>2
    <3>2. buffer[c][i] \in Words
      BY <1>1, <3>1, ElementOfSeq
    <3> QED
      BY <3>1, <3>2, ConstantsAssumption
  <2>4. i - Len(buffer[c]) \in 1 .. n /\ s[i - Len(buffer[c])] = Newline
    BY <1>6, <1>7, <2>2, <2>3
  <2> QED
    BY <2>4
<1> QED
  BY <1>4, <1>5, <1>7, <1>8

(* If it completes a message, it has taken all of the stream. *)
LEMMA CollectedIs ==
    ASSUME Typed, NEW c \in Clients, NewlineLast(c), NEW n \in Nat, n <= Len(stream[c])
    PROVE  /\ Collected(c, n) \in Seq(Bytes)
           /\ Len(Collected(c, n)) = Len(buffer[c]) + n
           /\ Contains(Collected(c, n), Newline) => n = Len(stream[c])
<1>1. stream[c] \in Seq(Bytes) /\ buffer[c] \in Seq(Words)
  BY DEF Typed
<1>2. ASSUME NEW i \in 1 .. n, stream[c][i] = Newline
      PROVE  n = Len(stream[c])
  <2>1. i \notin 1 .. Len(stream[c]) - 1 /\ Len(stream[c]) \in Nat
    BY <1>1, <1>2, LenProperties DEF NewlineLast
  <2> QED
    BY <2>1
<1> QED
  BY <1>1, <1>2, CollectedHas

(* One line is under way: its length, and what is left once it is answered. *)
LEMMA OneLine ==
    ASSUME NEW l \in Lines
    PROVE  /\ Append(<<>>, l) # <<>> /\ Len(Append(<<>>, l)) = 1
           /\ Head(Append(<<>>, l)) = l /\ Tail(Append(<<>>, l)) = <<>>
<1>1. <<>> \in Seq(Lines) /\ Len(<<>>) = 0
  BY EmptySeq
<1>2. Append(<<>>, l) # <<>> /\ Len(Append(<<>>, l)) = 0 + 1
  BY <1>1, AppendProperties
<1> QED
  BY <1>1, <1>2, HeadTailAppend

(* n units move from the stream to the buffer. *)
LEMMA Moved ==
    ASSUME NEW b \in Nat, NEW s \in Nat, NEW n \in Nat
    PROVE  (b + n) + (s - n) = b + s
OBVIOUS

(* The i-th unit after n more. *)
LEMMA Regrouped ==
    ASSUME NEW b \in Nat, NEW n \in Nat, NEW i \in Nat
    PROVE  b + (n + i) = (b + n) + i
OBVIOUS

(* Part of what is under way is no longer than the line. *)
LEMMA Shorter ==
    ASSUME NEW b \in Nat, NEW s \in Nat, NEW n \in Nat, n <= s, NEW h \in Nat, b + s <= h + 1
    PROVE  b + n <= h + 1
OBVIOUS

(* The units received are part of a line of h words. *)
LEMMA TooLongIs ==
    ASSUME NEW b \in Nat, NEW s \in Nat, NEW n \in Nat, n <= s, NEW h \in Nat, NEW m \in Nat,
           b + s <= h + 1, b + n > m, NEW s2, s2 = s - n
    PROVE  b + s2 <= h + 1 /\ h + 1 > m
OBVIOUS

-----------------------------------------------------------------------------
(* The invariant, one client and one action at a time. *)

(* The server starts with nothing under way. *)
LEMMA IInvInit == Init => IInv
<1> SUFFICES ASSUME Init
             PROVE  IInv
  OBVIOUS
<1>1. /\ <<>> \in Seq(Bytes) /\ <<>> \in Seq(Words) /\ Len(<<>>) = 0
  BY EmptySeq
<1>2. Typed
  BY <1>1 DEF Init, Typed
<1>3. \A c \in Clients : Good(c)
  <2> TAKE c \in Clients
  <2>1. /\ client[c] = "in" /\ waiting[c] = <<>> /\ stream[c] = <<>> /\ inbox[c] = <<>>
        /\ open[c] = TRUE /\ buffer[c] = <<>> /\ pc[c] = "idle" /\ reset = {}
    BY DEF Init
  <2>2. Len(stream[c]) = 0
    BY <1>1, <2>1
  <2>3. NewlineLast(c)
    BY <2>2 DEF NewlineLast
  <2> QED
    BY <2>1, <2>3 DEF Good, OneAtATime, HandlerAlone, LineUnderWay, Quiet, ResetIsOver
<1> QED
  BY <1>2, <1>3 DEF IInv, Init

(* A step of one client says nothing of another. *)
LEMMA Frame ==
    ASSUME NEW c, Good(c), c \in reset' <=> c \in reset,
           client'[c] = client[c], waiting'[c] = waiting[c], stream'[c] = stream[c],
           inbox'[c] = inbox[c], open'[c] = open[c], buffer'[c] = buffer[c], pc'[c] = pc[c]
    PROVE  Good(c)'
BY DEF Good, OneAtATime, NewlineLast, HandlerAlone, LineUnderWay, Quiet, ResetIsOver

(* Where a client can send, nothing of an earlier line is left. *)
LEMMA NothingUnderWay ==
    ASSUME IInv, Window = 1, NEW c \in Clients, NEW l \in Lines, SendLine(c, l)
    PROVE  /\ waiting[c] = <<>> /\ stream[c] = <<>> /\ buffer[c] = <<>> /\ inbox[c] = <<>>
           /\ pc[c] = "idle"
<1>1. Len(waiting[c]) < Window
  BY DEF SendLine
<1>2. waiting[c] = <<>>
  <2>1. ASSUME NEW m \in Lines, waiting[c] = Append(<<>>, m)
        PROVE  FALSE
    BY <1>1, <2>1, OneLine
  <2> QED
    BY <2>1 DEF IInv, Good, OneAtATime
<1> QED
  BY <1>2 DEF IInv, Good, LineUnderWay, HandlerAlone, Quiet

(* What reading the answer leaves. *)
LEMMA NothingLeft ==
    ASSUME IInv, NEW c \in Clients, ReadAnswer(c)
    PROVE  /\ waiting[c] # <<>> /\ pc[c] = "idle"
           /\ Tail(waiting[c]) = <<>> /\ Tail(inbox[c]) = <<>>
<1>1. inbox[c] # <<>>
  BY DEF ReadAnswer
<1>2. waiting[c] # <<>> /\ pc[c] = "idle"
  BY <1>1 DEF IInv, Good, LineUnderWay, HandlerAlone
<1>3. Tail(waiting[c]) = <<>>
  BY <1>2, OneLine DEF IInv, Good, OneAtATime
<1>4. PICK a : inbox[c] = Append(<<>>, a)
  BY <1>1 DEF IInv, Good, OneAtATime
<1>5. <<>> \in Seq({a})
  BY EmptySeq
<1> QED
  BY <1>2, <1>3, <1>4, <1>5, HeadTailAppend

(* A client sends a line when nothing of an earlier one is left. *)
LEMMA SendLineStep ==
    ASSUME IInv, Window = 1, NEW c \in Clients, NEW l \in Lines, SendLine(c, l)
    PROVE  IInv'
<1>1. /\ client[c] = "in" /\ open[c] /\ Len(waiting[c]) < Window
      /\ stream' = [stream EXCEPT ![c] = stream[c] \o Append(l, Newline)]
      /\ waiting' = [waiting EXCEPT ![c] = Append(waiting[c], l)]
      /\ UNCHANGED <<client, inbox, reset, up, open, buffer, pc>>
  BY DEF SendLine
<1>2. waiting[c] = <<>>
  BY NothingUnderWay
<1>3. stream[c] = <<>> /\ buffer[c] = <<>> /\ inbox[c] = <<>> /\ pc[c] = "idle"
  BY NothingUnderWay
<1>4. l \in Seq(Words) /\ l \in Seq(Bytes) /\ Newline \in Bytes
  BY ConstantsAssumption, SeqMonotonic DEF Bytes
<1> DEFINE s == Append(l, Newline)
<1>5. /\ s \in Seq(Bytes) /\ Len(s) = Len(l) + 1 /\ s # <<>>
      /\ \A i \in 1 .. Len(l) : s[i] = l[i]
  BY <1>4, AppendProperties
<1>6. <<>> \o s = s
  BY <1>5, ConcatEmptySeq
<1>7. stream'[c] = s /\ waiting'[c] = Append(<<>>, l)
  BY <1>1, <1>2, <1>3, <1>6 DEF IInv, Typed
<1> HIDE DEF s
<1>8. Typed'
  BY <1>1, <1>3, <1>5, <1>6 DEF IInv, Typed, s
<1>9. Len(l) \in Nat /\ \A i \in 1 .. Len(l) : l[i] # Newline
  BY <1>4, ElementOfSeq, LenProperties, ConstantsAssumption
<1>10. NewlineLast(c)'
  BY <1>5, <1>7, <1>9 DEF NewlineLast
<1>11. LineUnderWay(c)'
  <2>1. waiting'[c] # <<>> /\ Head(waiting'[c]) = l
    BY <1>7, OneLine
  <2>2. Len(buffer[c]) = 0
    BY <1>3, EmptySeq
  <2>3. Len(buffer'[c]) + Len(stream'[c]) <= Len(l) + 1
    BY <1>1, <1>5, <1>7, <1>9, <2>2
  <2> QED
    BY <1>1, <1>3, <2>1, <2>3 DEF LineUnderWay
<1>12. OneAtATime(c)'
  BY <1>1, <1>3, <1>7 DEF OneAtATime
<1>13. HandlerAlone(c)' /\ ResetIsOver(c)'
  BY <1>1, <1>3 DEF IInv, Good, HandlerAlone, ResetIsOver
<1>14. \A d \in Clients \ {c} : Good(d)'
  BY <1>1, Frame DEF IInv, Typed
<1> QED
  BY <1>1, <1>8, <1>10, <1>11, <1>12, <1>13, <1>14 DEF IInv, Good

(* Reading its answer leaves a client with nothing under way. *)
LEMMA ReadAnswerStep ==
    ASSUME IInv, NEW c \in Clients, ReadAnswer(c)
    PROVE  IInv'
<1>1. /\ client[c] = "in" /\ inbox[c] # <<>>
      /\ inbox' = [inbox EXCEPT ![c] = Tail(inbox[c])]
      /\ waiting' = [waiting EXCEPT ![c] = Tail(waiting[c])]
      /\ UNCHANGED <<client, stream, reset, up, open, buffer, pc>>
  BY DEF ReadAnswer
<1>2. Quiet(c) /\ waiting[c] # <<>> /\ pc[c] = "idle" /\ open[c]
  BY <1>1 DEF IInv, Good, LineUnderWay, HandlerAlone
<1>3. Tail(waiting[c]) = <<>> /\ Tail(inbox[c]) = <<>>
  BY NothingLeft
<1>5. inbox'[c] = <<>> /\ waiting'[c] = <<>>
  BY <1>1, <1>3 DEF IInv, Typed
<1>6. Typed'
  BY <1>1 DEF IInv, Typed
<1>7. Good(c)'
  BY <1>1, <1>2, <1>5 DEF IInv, Good, OneAtATime, NewlineLast, HandlerAlone, LineUnderWay, Quiet,
                          ResetIsOver
<1>8. \A d \in Clients \ {c} : Good(d)'
  BY <1>1, Frame DEF IInv, Typed
<1> QED
  BY <1>1, <1>6, <1>7, <1>8 DEF IInv

(* A client that leaves has sent a prefix of its line. *)
LEMMA LeaveStep ==
    ASSUME IInv, NEW c \in Clients, Leave(c)
    PROVE  IInv'
<1>1. stream[c] \in Seq(Bytes) /\ Len(stream[c]) \in Nat
  BY LenProperties DEF IInv, Typed
<1>2. PICK n \in 0 .. Len(stream[c]) :
        stream' = [stream EXCEPT ![c] = SubSeq(stream[c], 1, n)]
  BY DEF Leave
<1>3. /\ client[c] = "in" /\ client' = [client EXCEPT ![c] = "left"]
      /\ UNCHANGED <<waiting, inbox, reset, up, open, buffer, pc>>
  BY DEF Leave
<1>4. n \in Nat /\ n <= Len(stream[c])
  BY <1>1
<1> DEFINE s == SubSeq(stream[c], 1, n)
<1>5. /\ s \in Seq(Bytes) /\ Len(s) = n
      /\ \A i \in 1 .. n : s[i] = stream[c][i]
  BY <1>1, <1>4, Cut
<1>6. stream[c] = <<>> => s = <<>>
  <2> SUFFICES ASSUME stream[c] = <<>>
               PROVE  s = <<>>
    OBVIOUS
  <2>1. n = 0
    BY <1>4, EmptySeq
  <2>2. SubSeq(stream[c], 1, 0) = <<>>
    BY SubSeqEmpty
  <2> QED
    BY <2>1, <2>2
<1>7. stream'[c] = s /\ client'[c] = "left"
  BY <1>2, <1>3 DEF IInv, Typed
<1> HIDE DEF s
<1>8. Typed'
  BY <1>2, <1>3, <1>5 DEF IInv, Typed, s
<1>9. NewlineLast(c)'
  BY <1>1, <1>4, <1>5, <1>7 DEF IInv, Good, NewlineLast
<1>10. OneAtATime(c)' /\ HandlerAlone(c)' /\ LineUnderWay(c)' /\ ResetIsOver(c)'
  <2>1. waiting[c] # <<>> => Len(buffer[c]) + n <= Len(Head(waiting[c])) + 1
    <3> SUFFICES ASSUME waiting[c] # <<>>
                 PROVE  Len(buffer[c]) + n <= Len(Head(waiting[c])) + 1
      OBVIOUS
    <3>1. Head(waiting[c]) \in Lines
      BY OneLine, Zenon DEF IInv, Good, OneAtATime
    <3>2. Len(Head(waiting[c])) \in Nat /\ Len(buffer[c]) \in Nat
      BY <3>1, ConstantsAssumption, LenProperties DEF IInv, Typed
    <3>3. Len(buffer[c]) + Len(stream[c]) <= Len(Head(waiting[c])) + 1
      BY DEF IInv, Good, LineUnderWay
    <3> QED
      BY <1>1, <1>4, <3>2, <3>3, Shorter, Zenon
  <2>2. LineUnderWay(c)'
    BY <1>3, <1>5, <1>6, <1>7, <2>1 DEF IInv, Good, LineUnderWay, Quiet
  <2> QED
    BY <1>3, <1>6, <1>7, <2>2 DEF IInv, Good, OneAtATime, HandlerAlone, Quiet, ResetIsOver
<1>11. \A d \in Clients \ {c} : Good(d)'
  BY <1>2, <1>3, Frame DEF IInv, Typed
<1> QED
  BY <1>3, <1>8, <1>9, <1>10, <1>11 DEF IInv, Good

(* What every recv does to the stream. *)
LEMMA ReceivedIs ==
    ASSUME IInv, NEW c \in Clients, NEW n \in 1 .. RecvSize, Received(c, n)
    PROVE  /\ n \in Nat /\ n >= 1 /\ n <= Len(stream[c])
           /\ pc[c] = "idle" /\ open[c] /\ stream[c] # <<>> /\ c \notin reset
           /\ waiting[c] # <<>> /\ inbox[c] = <<>>
           /\ UNCHANGED <<client, waiting, inbox, reset, up>>
           /\ stream' \in [Clients -> Seq(Bytes)]
           /\ \A d \in Clients \ {c} : stream'[d] = stream[d]
           /\ Len(stream'[c]) = Len(stream[c]) - n
           /\ n = Len(stream[c]) => stream'[c] = <<>>
           /\ NewlineLast(c)'
<1>1. /\ n \in Nat /\ n >= 1 /\ n <= Len(stream[c]) /\ pc[c] = "idle" /\ open[c]
      /\ UNCHANGED <<client, waiting, inbox, reset, up>>
      /\ stream' = [stream EXCEPT ![c] = SubSeq(stream[c], n + 1, Len(stream[c]))]
  BY ConstantsAssumption DEF Received, CanRecv
<1>2. stream[c] \in Seq(Bytes) /\ Len(stream[c]) \in Nat
  BY LenProperties DEF IInv, Typed
<1>3. stream[c] # <<>>
  BY <1>1, EmptySeq
<1>4. c \notin reset /\ waiting[c] # <<>> /\ inbox[c] = <<>>
  BY <1>3 DEF IInv, Good, LineUnderWay, Quiet, ResetIsOver
<1>5. stream'[c] = SubSeq(stream[c], n + 1, Len(stream[c]))
  BY <1>1 DEF IInv, Typed
<1>6. /\ stream'[c] \in Seq(Bytes) /\ Len(stream'[c]) = Len(stream[c]) - n
      /\ \A i \in 1 .. Len(stream[c]) - n : stream'[c][i] = stream[c][n + i]
      /\ n = Len(stream[c]) => stream'[c] = <<>>
  BY <1>1, <1>2, <1>5, Cut
<1>7. NewlineLast(c)'
  <2> SUFFICES ASSUME NEW i \in 1 .. Len(stream'[c]) - 1
               PROVE  stream'[c][i] # Newline
    BY DEF NewlineLast
  <2>1. i \in 1 .. Len(stream[c]) - n /\ n + i \in 1 .. Len(stream[c]) - 1
    BY <1>1, <1>2, <1>6
  <2>2. stream[c][n + i] # Newline
    BY <2>1 DEF IInv, Good, NewlineLast
  <2> QED
    BY <1>6, <2>1, <2>2
<1>8. /\ stream' \in [Clients -> Seq(Bytes)]
      /\ \A d \in Clients \ {c} : stream'[d] = stream[d]
  BY <1>1, <1>5, <1>6 DEF IInv, Typed
<1> QED
  BY <1>1, <1>3, <1>4, <1>6, <1>7, <1>8

(* The line of a client that is cut off is longer than the limit. *)
LEMMA RecvTooMuchStep ==
    ASSUME IInv, NEW c \in Clients, NEW n \in 1 .. RecvSize, RecvTooMuch(c, n)
    PROVE  IInv'
<1>1. /\ Received(c, n) /\ Len(Collected(c, n)) > MaxBuffer
      /\ open' = [open EXCEPT ![c] = FALSE]
      /\ UNCHANGED <<buffer, pc>>
  BY DEF RecvTooMuch, TooLong
<1>2. open'[c] = FALSE /\ \A d \in Clients \ {c} : open'[d] = open[d]
  BY <1>1 DEF IInv, Typed
<1>3. /\ stream[c] \in Seq(Bytes) /\ Len(stream[c]) \in Nat
      /\ buffer[c] \in Seq(Words) /\ Len(buffer[c]) \in Nat
  BY LenProperties DEF IInv, Typed
<1>4. Len(Collected(c, n)) = Len(buffer[c]) + n
  BY <1>1, ReceivedIs, CollectedIs DEF IInv, Good
<1>5. \A l \in Lines : Len(l) \in Nat
  BY ConstantsAssumption, LenProperties
<1>6. Head(waiting[c]) \in Lines
  <2>1. waiting[c] # <<>>
    BY <1>1, ReceivedIs
  <2> QED
    BY <2>1, OneLine, Zenon DEF IInv, Good, OneAtATime
<1>7. Len(buffer[c]) + Len(stream[c]) <= Len(Head(waiting[c])) + 1
  BY <1>1, ReceivedIs DEF IInv, Good, LineUnderWay
<1>8. LineUnderWay(c)'
  <2> SUFFICES /\ waiting'[c] # <<>> /\ inbox'[c] = <<>>
               /\ Len(buffer'[c]) + Len(stream'[c]) <= Len(Head(waiting'[c])) + 1
               /\ Len(Head(waiting'[c])) + 1 > MaxBuffer
    BY DEF LineUnderWay
  <2>1. /\ waiting[c] # <<>> /\ inbox[c] = <<>>
        /\ waiting' = waiting /\ inbox' = inbox
        /\ n \in Nat /\ n <= Len(stream[c]) /\ Len(stream'[c]) = Len(stream[c]) - n
    BY <1>1, ReceivedIs
  <2>2. Len(Head(waiting[c])) \in Nat
    BY <1>5, <1>6, <2>1
  <2>3. Len(buffer[c]) + Len(stream[c]) <= Len(Head(waiting[c])) + 1
    BY <1>7, <2>1
  <2>4. buffer' = buffer /\ Len(buffer[c]) + n > MaxBuffer
    BY <1>1, <1>4
  <2>5. /\ Len(buffer[c]) + Len(stream'[c]) <= Len(Head(waiting[c])) + 1
        /\ Len(Head(waiting[c])) + 1 > MaxBuffer
    BY <1>3, <2>1, <2>2, <2>3, <2>4, TooLongIs, ConstantsAssumption, Zenon
  <2> QED
    BY <2>1, <2>4, <2>5, Zenon
<1>9. Typed'
  BY <1>1, ReceivedIs DEF IInv, Typed
<1>10. OneAtATime(c)' /\ HandlerAlone(c)' /\ ResetIsOver(c)'
  <2>1. pc[c] = "idle" /\ c \notin reset /\ UNCHANGED <<client, waiting, inbox, reset, pc>>
    BY <1>1, ReceivedIs
  <2> QED
    BY <2>1, Zenon DEF IInv, Good, OneAtATime, HandlerAlone, ResetIsOver
<1>11. \A d \in Clients \ {c} : Good(d)'
  BY <1>1, <1>2, ReceivedIs, Frame DEF IInv, Typed
<1> QED
  BY <1>1, <1>8, <1>9, <1>10, <1>11, ReceivedIs DEF IInv, Good

(* A part of the line moves from the stream to the buffer. *)
LEMMA RecvPartStep ==
    ASSUME IInv, NEW c \in Clients, NEW n \in 1 .. RecvSize, RecvPart(c, n)
    PROVE  IInv'
<1>1. /\ Received(c, n) /\ ~Contains(Collected(c, n), Newline)
      /\ buffer' = [buffer EXCEPT ![c] = Collected(c, n)]
      /\ UNCHANGED <<open, pc>>
  BY DEF RecvPart, Complete
<1>2. Collected(c, n) \in Seq(Bytes) /\ Len(Collected(c, n)) = Len(buffer[c]) + n
  BY <1>1, ReceivedIs, CollectedIs DEF IInv, Good
<1>3. Collected(c, n) \in Seq(Words)
  BY <1>1, <1>2, OnlyWords
<1>4. buffer'[c] = Collected(c, n) /\ \A d \in Clients \ {c} : buffer'[d] = buffer[d]
  BY <1>1 DEF IInv, Typed
<1>5. Typed'
  BY <1>1, <1>3, ReceivedIs DEF IInv, Typed
<1>6. /\ Len(stream[c]) \in Nat /\ Len(buffer[c]) \in Nat
  BY LenProperties DEF IInv, Typed
<1>7. Len(buffer'[c]) + Len(stream'[c]) = Len(buffer[c]) + Len(stream[c])
  <2>1. n \in Nat /\ Len(stream'[c]) = Len(stream[c]) - n
    BY <1>1, ReceivedIs
  <2>2. Len(buffer'[c]) = Len(buffer[c]) + n
    BY <1>2, <1>4
  <2>3. (Len(buffer[c]) + n) + (Len(stream[c]) - n) = Len(buffer[c]) + Len(stream[c])
    BY <1>6, <2>1, Moved, Zenon
  <2> QED
    BY <2>1, <2>2, <2>3, Zenon
<1>8. LineUnderWay(c)'
  BY <1>1, <1>7, ReceivedIs DEF IInv, Good, LineUnderWay
<1>9. OneAtATime(c)' /\ HandlerAlone(c)' /\ ResetIsOver(c)'
  <2>1. pc[c] = "idle" /\ c \notin reset /\ UNCHANGED <<client, waiting, inbox, reset, pc>>
    BY <1>1, ReceivedIs
  <2> QED
    BY <2>1, Zenon DEF IInv, Good, OneAtATime, HandlerAlone, ResetIsOver
<1>10. \A d \in Clients \ {c} : Good(d)'
  BY <1>1, <1>4, ReceivedIs, Frame DEF IInv, Typed
<1> QED
  BY <1>1, <1>5, <1>8, <1>9, <1>10, ReceivedIs DEF IInv, Good

(* The end of the line takes all that was left of it. *)
LEMMA RecvMessageStep ==
    ASSUME IInv, NEW c \in Clients, NEW n \in 1 .. RecvSize, RecvMessage(c, n)
    PROVE  IInv'
<1>1. /\ Received(c, n) /\ Contains(Collected(c, n), Newline)
      /\ buffer' = [buffer EXCEPT ![c] = <<>>]
      /\ pc' = [pc EXCEPT ![c] = "execute"]
      /\ UNCHANGED open
  BY DEF RecvMessage, Complete, LeftOver
<1>2. n = Len(stream[c])
  BY <1>1, ReceivedIs, CollectedIs DEF IInv, Good
<1>3. stream'[c] = <<>>
  BY <1>1, <1>2, ReceivedIs
<1>4. /\ buffer'[c] = <<>> /\ pc'[c] = "execute"
      /\ \A d \in Clients \ {c} : buffer'[d] = buffer[d] /\ pc'[d] = pc[d]
  BY <1>1 DEF IInv, Typed
<1>5. <<>> \in Seq(Words) /\ Len(<<>>) = 0
  BY EmptySeq
<1>6. Typed'
  BY <1>1, <1>5, ReceivedIs DEF IInv, Typed
<1>7. /\ Len(stream[c]) \in Nat /\ Len(buffer[c]) \in Nat
      /\ \A l \in Lines : Len(l) \in Nat
  BY ConstantsAssumption, LenProperties DEF IInv, Typed
<1>8. Len(Head(waiting[c])) \in Nat
  BY <1>1, <1>7, ReceivedIs, OneLine DEF IInv, Good, OneAtATime
<1>9. Len(buffer'[c]) + Len(stream'[c]) <= Len(Head(waiting[c])) + 1
  BY <1>3, <1>4, <1>5, <1>8
<1>10. LineUnderWay(c)'
  BY <1>1, <1>9, ReceivedIs DEF IInv, Good, LineUnderWay
<1>11. OneAtATime(c)' /\ HandlerAlone(c)' /\ ResetIsOver(c)'
  <2>1. /\ waiting[c] # <<>> /\ inbox[c] = <<>>
        /\ open[c] /\ c \notin reset /\ UNCHANGED <<client, waiting, inbox, reset>>
    BY <1>1, ReceivedIs
  <2>2. HandlerAlone(c)'
    BY <1>1, <1>3, <1>4, <2>1 DEF HandlerAlone, Quiet
  <2> QED
    BY <2>1, <2>2 DEF IInv, Good, OneAtATime, ResetIsOver
<1>12. \A d \in Clients \ {c} : Good(d)'
  BY <1>1, <1>4, ReceivedIs, Frame DEF IInv, Typed
<1> QED
  BY <1>1, <1>6, <1>10, <1>11, <1>12, ReceivedIs DEF IInv, Good

(* Only the connection of a client that has left ends. *)
LEMMA RecvEndStep ==
    ASSUME IInv, NEW c \in Clients, RecvEnd(c)
    PROVE  IInv'
<1>1. /\ client[c] = "left" /\ pc[c] = "idle" /\ open' = [open EXCEPT ![c] = FALSE]
      /\ UNCHANGED <<client, waiting, stream, inbox, reset, up, buffer, pc>>
  BY DEF RecvEnd, CanRecv, clientVars
<1>2. Typed'
  BY <1>1 DEF IInv, Typed
<1>3. Good(c)'
  BY <1>1 DEF IInv, Good, OneAtATime, NewlineLast, HandlerAlone, LineUnderWay, Quiet, ResetIsOver
<1>4. \A d \in Clients \ {c} : Good(d)'
  BY <1>1, Frame DEF IInv, Typed
<1> QED
  BY <1>1, <1>2, <1>3, <1>4 DEF IInv

(* Carrying out and logging a command only move the handler on. *)
LEMMA BusyStep ==
    ASSUME IInv, NEW c \in Clients, pc[c] # "idle", NEW next \in {"log", "send"},
           pc' = [pc EXCEPT ![c] = next],
           UNCHANGED <<client, waiting, stream, inbox, reset, up, open, buffer>>
    PROVE  IInv'
<1>1. Typed' /\ pc'[c] = next /\ next # "idle"
  BY DEF IInv, Typed
<1>2. Good(c)'
  BY <1>1 DEF IInv, Good, OneAtATime, NewlineLast, HandlerAlone, LineUnderWay, Quiet, ResetIsOver
<1>3. \A d \in Clients \ {c} : Good(d)'
  BY Frame DEF IInv, Typed
<1> QED
  BY <1>1, <1>2, <1>3 DEF IInv

(* The answer goes to a client that is there, or is refused for the first    *)
(* and last time.                                                            *)
LEMMA SendAnswerStep ==
    ASSUME IInv, NEW c \in Clients, SendAnswer(c)
    PROVE  IInv'
<1>1. /\ pc[c] = "send"
      /\ inbox' = [inbox EXCEPT ![c] = Append(inbox[c], answer[c])]
      /\ reset' = IF client[c] = "left" THEN reset \union {c} ELSE reset
      /\ up' = (c \notin reset)
      /\ pc' = [pc EXCEPT ![c] = "idle"]
      /\ UNCHANGED <<client, waiting, stream, open, buffer>>
  BY DEF SendAnswer
<1>2. c \notin reset
  BY <1>1 DEF IInv, Good, ResetIsOver
<1>3. up' = TRUE
  BY <1>1, <1>2
<1>4. Typed' /\ pc'[c] = "idle"
  BY <1>1 DEF IInv, Typed
<1>5. Quiet(c) /\ waiting[c] # <<>> /\ inbox[c] = <<>> /\ open[c]
  BY <1>1 DEF IInv, Good, HandlerAlone
<1>6. inbox'[c] = Append(<<>>, answer[c])
  BY <1>1, <1>5 DEF IInv, Typed
<1>7. OneAtATime(c)'
  BY <1>1, <1>6 DEF IInv, Good, OneAtATime
<1>8. NewlineLast(c)' /\ HandlerAlone(c)' /\ LineUnderWay(c)'
  BY <1>1, <1>4, <1>5 DEF IInv, Good, NewlineLast, HandlerAlone, LineUnderWay, Quiet
<1>9. ResetIsOver(c)'
  BY <1>1, <1>4, <1>5 DEF IInv, Typed, Good, Quiet, ResetIsOver
<1>10. \A d \in Clients \ {c} : Good(d)'
  BY <1>1, Frame DEF IInv, Typed
<1> QED
  BY <1>3, <1>4, <1>7, <1>8, <1>9, <1>10 DEF IInv, Good

(* Every step keeps the invariant. *)
LEMMA IInvStep == Window = 1 /\ IInv /\ [Next]_vars => IInv'
<1> SUFFICES ASSUME Window = 1, IInv, [Next]_vars
             PROVE  IInv'
  OBVIOUS
<1>1. CASE UNCHANGED vars
  <2>1. \A c \in Clients : Good(c)'
    BY <1>1, Frame DEF IInv, vars
  <2> QED
    BY <1>1, <2>1 DEF IInv, Typed, vars
<1>2. CASE Next
  <2>1. PICK c \in Clients : \/ \E l \in Lines : SendLine(c, l)
                             \/ ReadAnswer(c)
                             \/ Leave(c)
                             \/ Handle(c)
    BY <1>2 DEF Next
  <2>2. ASSUME Recv(c)
        PROVE  IInv'
    BY <2>2, RecvTooMuchStep, RecvPartStep, RecvMessageStep, RecvEndStep DEF Recv
  <2>3. ASSUME Insert(c) \/ InsertNothing(c) \/ Get(c) \/ Delete(c) \/ Unknown(c)
        PROVE  IInv'
    <3>1. PICK next \in {"log", "send"} : \E a : Executed(c, a, next)
      BY <2>3, Zenon DEF Insert, InsertNothing, Get, Delete, Unknown, AfterWrite
    <3> QED
      BY <3>1, BusyStep DEF Executed, clientVars
  <2>4. ASSUME AppendToLog(c)
        PROVE  IInv'
    BY <2>4, BusyStep DEF AppendToLog, clientVars
  <2> QED
    BY <2>1, <2>2, <2>3, <2>4, SendLineStep, ReadAnswerStep, LeaveStep, SendAnswerStep DEF Handle
<1> QED
  BY <1>1, <1>2

-----------------------------------------------------------------------------

(* The server sends nothing on a connection whose peer has refused an        *)
(* answer, so no departed client ends the process, however many there are.   *)
THEOREM SurvivesCorrect ==
    ASSUME Window = 1
    PROVE  Spec => []SurvivesDepartedClients
<1>1. IInv => SurvivesDepartedClients
  BY DEF IInv, SurvivesDepartedClients
<1>2. IInv /\ [Next]_vars => IInv'
  BY IInvStep
<1> QED
  BY <1>1, <1>2, IInvInit, PTL DEF Spec

(* MAX_COMMAND_BUFFER_LENGTH costs a client its connection only over a line  *)
(* that is longer, wherever TCP cuts it.                                     *)
THEOREM OverlongCorrect ==
    ASSUME Window = 1
    PROVE  Spec => []OnlyOverlongLinesDisconnect
<1>1. IInv => OnlyOverlongLinesDisconnect
  BY DEF IInv, Good, LineUnderWay, OnlyOverlongLinesDisconnect
<1>2. IInv /\ [Next]_vars => IInv'
  BY IInvStep
<1> QED
  BY <1>1, <1>2, IInvInit, PTL DEF Spec

-----------------------------------------------------------------------------
(* Types, for clients however far ahead of their answers (any Window). A     *)
(* client that reads an answer waits for one, because every command takes a  *)
(* newline out of the stream and every newline has its line.                 *)

Newlines(s) == {i \in DOMAIN s : s[i] = Newline}

Running(c) == IF pc[c] = "idle" THEN 0 ELSE 1

(* A line for every newline to come, every running command and every answer. *)
Owed(c) ==
    Cardinality(Newlines(stream[c])) + Running(c) + Len(inbox[c]) <= Len(waiting[c])

TInv == TypeOK /\ \A c \in Clients : Owed(c)

(* The newlines of a stream can be counted. *)
LEMMA NewlinesFinite ==
    ASSUME NEW s \in Seq(Bytes)
    PROVE  IsFiniteSet(Newlines(s)) /\ Cardinality(Newlines(s)) \in Nat
<1>1. DOMAIN s = 1 .. Len(s) /\ Len(s) \in Nat
  BY LenProperties
<1>2. IsFiniteSet(1 .. Len(s))
  BY <1>1, FS_Interval
<1>3. Newlines(s) \in SUBSET (1 .. Len(s))
  BY <1>1 DEF Newlines
<1> QED
  BY <1>2, <1>3, FS_Subset, FS_CardinalityType

(* A prefix has no more of them. *)
LEMMA NewlinesPrefix ==
    ASSUME NEW s \in Seq(Bytes), NEW n \in Nat, n <= Len(s)
    PROVE  Cardinality(Newlines(SubSeq(s, 1, n))) <= Cardinality(Newlines(s))
<1> DEFINE t == SubSeq(s, 1, n)
<1>1. /\ t \in Seq(Bytes) /\ Len(t) = n /\ \A i \in 1 .. n : t[i] = s[i]
  BY Cut
<1>2. DOMAIN t = 1 .. n /\ DOMAIN s = 1 .. Len(s) /\ Len(s) \in Nat
  BY <1>1, LenProperties
<1> HIDE DEF t
<1>3. Newlines(t) \in SUBSET Newlines(s)
  BY <1>1, <1>2 DEF Newlines
<1> QED
  BY <1>3, NewlinesFinite, FS_Subset DEF t

(* Nor has what remains, and it has fewer once one was received. *)
LEMMA NewlinesRest ==
    ASSUME NEW s \in Seq(Bytes), NEW n \in Nat, n <= Len(s)
    PROVE  /\ Cardinality(Newlines(SubSeq(s, n + 1, Len(s)))) <= Cardinality(Newlines(s))
           /\ (\E i \in 1 .. n : s[i] = Newline) =>
                Cardinality(Newlines(SubSeq(s, n + 1, Len(s)))) + 1 <= Cardinality(Newlines(s))
<1> DEFINE t == SubSeq(s, n + 1, Len(s))
<1>1. /\ t \in Seq(Bytes) /\ Len(t) = Len(s) - n
      /\ \A i \in 1 .. Len(s) - n : t[i] = s[n + i]
  BY Cut
<1>2. DOMAIN t = 1 .. Len(s) - n /\ DOMAIN s = 1 .. Len(s) /\ Len(s) \in Nat
  BY <1>1, LenProperties
<1> HIDE DEF t
<1> DEFINE S == Newlines(s)
           T == Newlines(t)
           f == [i \in T |-> n + i]
<1>3. \A i \in T : i \in 1 .. Len(s) - n /\ n + i \in S /\ n + i > n
  BY <1>1, <1>2 DEF Newlines
<1>4. IsFiniteSet(S) /\ IsFiniteSet(T) /\ Cardinality(S) \in Nat /\ Cardinality(T) \in Nat
  BY <1>1, NewlinesFinite
<1> HIDE DEF S, T
<1>5. \A R : (\A i \in T : n + i \in R) => f \in Injection(T, R)
  BY <1>3 DEF Injection, IsInjective
<1>6. f \in Injection(T, S)
  BY <1>3, <1>5
<1>7. Cardinality(T) <= Cardinality(S)
  BY <1>4, <1>6, FS_Injection
<1>8. ASSUME NEW k \in 1 .. n, s[k] = Newline
      PROVE  Cardinality(T) + 1 <= Cardinality(S)
  <2>1. k \in S
    BY <1>2, <1>8 DEF S, Newlines
  <2>2. f \in Injection(T, S \ {k})
    BY <1>3, <1>5
  <2>3. IsFiniteSet(S \ {k}) /\ Cardinality(S \ {k}) = Cardinality(S) - 1
    BY <1>4, <2>1, FS_RemoveElement
  <2>4. Cardinality(T) <= Cardinality(S \ {k})
    BY <2>2, <2>3, FS_Injection
  <2> QED
    BY <1>4, <2>3, <2>4
<1> QED
  BY <1>7, <1>8 DEF S, T, t

(* A line that is sent adds one. *)
LEMMA NewlinesAdded ==
    ASSUME NEW s \in Seq(Bytes), NEW l \in Lines
    PROVE  /\ s \o Append(l, Newline) \in Seq(Bytes)
           /\ Cardinality(Newlines(s \o Append(l, Newline))) = Cardinality(Newlines(s)) + 1
<1>1. l \in Seq(Words) /\ l \in Seq(Bytes) /\ Newline \in Bytes
  BY ConstantsAssumption, SeqMonotonic DEF Bytes
<1> DEFINE m == Append(l, Newline)
           t == s \o m
<1>2. /\ m \in Seq(Bytes) /\ Len(m) = Len(l) + 1 /\ m[Len(l) + 1] = Newline
      /\ \A i \in 1 .. Len(l) : m[i] = l[i]
  BY <1>1, AppendProperties
<1>3. /\ Len(l) \in Nat /\ Len(s) \in Nat /\ DOMAIN s = 1 .. Len(s)
      /\ \A i \in 1 .. Len(l) : l[i] # Newline
  BY <1>1, ElementOfSeq, LenProperties, ConstantsAssumption
<1> HIDE DEF m
<1>4. /\ t \in Seq(Bytes) /\ Len(t) = Len(s) + Len(m)
      /\ \A i \in 1 .. Len(s) + Len(m) : t[i] = IF i <= Len(s) THEN s[i] ELSE m[i - Len(s)]
  BY <1>2, ConcatProperties
<1> HIDE DEF t
<1>5. DOMAIN t = 1 .. Len(s) + Len(l) + 1
  BY <1>2, <1>3, <1>4, LenProperties
<1> DEFINE k == Len(s) + Len(l) + 1
<1>6. /\ \A i \in 1 .. Len(s) : t[i] = s[i]
      /\ \A i \in Len(s) + 1 .. Len(s) + Len(l) : t[i] # Newline
      /\ t[k] = Newline
  <2>1. \A i \in 1 .. Len(s) : t[i] = s[i]
    BY <1>2, <1>3, <1>4
  <2>2. ASSUME NEW i \in Len(s) + 1 .. Len(s) + Len(l)
        PROVE  t[i] # Newline
    <3>1. i \in 1 .. Len(s) + Len(m) /\ ~(i <= Len(s)) /\ i - Len(s) \in 1 .. Len(l)
      BY <1>2, <1>3
    <3> QED
      BY <1>2, <1>3, <1>4, <3>1
  <2>3. t[k] = Newline
    <3>1. k \in 1 .. Len(s) + Len(m) /\ ~(k <= Len(s)) /\ k - Len(s) = Len(l) + 1
      BY <1>2, <1>3
    <3> QED
      BY <1>2, <1>4, <3>1
  <2> QED
    BY <2>1, <2>2, <2>3
<1>7. k \in Nat /\ k > Len(s)
  BY <1>3
<1>8. Newlines(t) = Newlines(s) \union {k}
  <2>1. \A i \in DOMAIN t : i \in 1 .. Len(s) \/ i \in Len(s) + 1 .. Len(s) + Len(l) \/ i = k
    BY <1>3, <1>5
  <2>2. DOMAIN s \subseteq DOMAIN t /\ k \in DOMAIN t
    BY <1>3, <1>5
  <2> HIDE DEF k
  <2> QED
    BY <1>3, <1>6, <2>1, <2>2 DEF Newlines
<1>9. k \notin Newlines(s)
  BY <1>3, <1>7 DEF Newlines
<1> QED
  BY <1>4, <1>8, <1>9, NewlinesFinite, FS_AddElement DEF t, m

(* operator>> yields words of the message or empty strings. *)
LEMMA ParseType ==
    ASSUME NEW message \in Seq(Bytes)
    PROVE  Parse(message) \in Commands
<1>1. \A i \in DOMAIN message : message[i] \in Bytes
  BY LenProperties
<1>2. ASSUME NEW n
      PROVE  Word(message, n) \in Strings
  <2> DEFINE words == {i \in DOMAIN message : message[i] # Newline}
             nth == {i \in words : Cardinality({j \in words : j <= i}) = n}
  <2>1. Word(message, n) = IF nth = {} THEN Empty ELSE message[CHOOSE i \in nth : TRUE]
    BY DEF Word
  <2>2. \A i \in nth : message[i] \in Words
    BY <1>1 DEF Bytes
  <2>3. nth # {} => (CHOOSE i \in nth : TRUE) \in nth
    OBVIOUS
  <2> HIDE DEF nth
  <2> QED
    BY <2>1, <2>2, <2>3 DEF Strings
<1> QED
  BY <1>2 DEF Parse, Commands, Strings

(* A step of one client owes the others no more. *)
LEMMA OwedFrame ==
    ASSUME NEW d, Owed(d), stream'[d] = stream[d], pc'[d] = pc[d], inbox'[d] = inbox[d],
           waiting'[d] = waiting[d]
    PROVE  Owed(d)'
BY DEF Owed, Running

(* The numbers Owed speaks of. *)
LEMMA OwedTypes ==
    ASSUME TInv, NEW c \in Clients
    PROVE  /\ Cardinality(Newlines(stream[c])) \in Nat /\ Running(c) \in {0, 1}
           /\ Len(inbox[c]) \in Nat /\ Len(waiting[c]) \in Nat
           /\ stream[c] \in Seq(Bytes) /\ inbox[c] \in Seq(Answers) /\ waiting[c] \in Seq(Lines)
<1>1. stream[c] \in Seq(Bytes) /\ inbox[c] \in Seq(Answers) /\ waiting[c] \in Seq(Lines)
  BY DEF TInv, TypeOK, Bytes
<1> QED
  BY <1>1, NewlinesFinite, LenProperties DEF Running

(* Every command begins with nothing. *)
LEMMA TInvInit == Init => TInv
<1> SUFFICES ASSUME Init
             PROVE  TInv
  OBVIOUS
<1>1. /\ <<>> \in Seq(Lines) /\ <<>> \in Seq(Bytes) /\ <<>> \in Seq(Answers) /\ <<>> \in Seq(Words)
      /\ <<>> \in Seq(Commands) /\ Len(<<>>) = 0
  BY EmptySeq
<1>2. NoCommand \in Commands /\ 0 \in 0 .. MaxLines /\ 0 <= MaxBuffer
  BY ConstantsAssumption DEF NoCommand, Commands, Strings
<1>3. TypeOK
  BY <1>1, <1>2 DEF Init, TypeOK, Strings, Bytes
<1>4. ASSUME NEW c \in Clients
      PROVE  Owed(c)
  <2>1. /\ stream[c] = <<>> /\ inbox[c] = <<>> /\ waiting[c] = <<>> /\ pc[c] = "idle"
    BY DEF Init
  <2>2. Newlines(<<>>) = {}
    BY DEF Newlines
  <2>3. /\ Cardinality(Newlines(stream[c])) = 0 /\ Running(c) = 0
        /\ Len(inbox[c]) = 0 /\ Len(waiting[c]) = 0
    BY <1>1, <2>1, <2>2, FS_EmptySet DEF Running
  <2> QED
    BY <2>3 DEF Owed
<1> QED
  BY <1>3, <1>4 DEF TInv

(* A client sends a line, reads an answer or leaves. *)
LEMMA TInvClient ==
    ASSUME TInv, NEW c \in Clients,
           (\E l \in Lines : SendLine(c, l)) \/ ReadAnswer(c) \/ Leave(c)
    PROVE  TInv'
<1>1. /\ Cardinality(Newlines(stream[c])) \in Nat /\ Running(c) \in {0, 1}
      /\ Len(inbox[c]) \in Nat /\ Len(waiting[c]) \in Nat
      /\ stream[c] \in Seq(Bytes) /\ inbox[c] \in Seq(Answers) /\ waiting[c] \in Seq(Lines)
  BY OwedTypes
<1>2. Cardinality(Newlines(stream[c])) + Running(c) + Len(inbox[c]) <= Len(waiting[c])
  BY DEF TInv, Owed
<1>3. ASSUME NEW l \in Lines, SendLine(c, l)
      PROVE  TInv'
  <2>1. /\ sent < MaxLines /\ sent' = sent + 1
        /\ stream' = [stream EXCEPT ![c] = stream[c] \o Append(l, Newline)]
        /\ waiting' = [waiting EXCEPT ![c] = Append(waiting[c], l)]
        /\ UNCHANGED <<client, inbox, reset, up, open, buffer, pc, cmd, answer, store, log>>
    BY <1>3 DEF SendLine
  <2> DEFINE t == stream[c] \o Append(l, Newline)
             u == Append(waiting[c], l)
  <2>2. t \in Seq(Bytes) /\ Cardinality(Newlines(t)) = Cardinality(Newlines(stream[c])) + 1
    BY <1>1, NewlinesAdded
  <2>3. u \in Seq(Lines) /\ Len(u) = Len(waiting[c]) + 1
    BY <1>1, AppendProperties
  <2>4. stream' = [stream EXCEPT ![c] = t] /\ waiting' = [waiting EXCEPT ![c] = u]
    BY <2>1
  <2> HIDE DEF t, u
  <2>5. /\ stream'[c] = t /\ waiting'[c] = u
        /\ \A d \in Clients : d # c => stream'[d] = stream[d] /\ waiting'[d] = waiting[d]
    BY <2>4 DEF TInv, TypeOK
  <2>6. TypeOK'
    <3>1. sent' \in 0 .. MaxLines
      BY <2>1, ConstantsAssumption DEF TInv, TypeOK
    <3>2. stream' \in [Clients -> Seq(Words \union {Newline})]
      BY <2>2, <2>4 DEF TInv, TypeOK, Bytes
    <3>3. waiting' \in [Clients -> Seq(Lines)]
      BY <2>3, <2>4 DEF TInv, TypeOK
    <3> QED
      BY <2>1, <3>1, <3>2, <3>3 DEF TInv, TypeOK
  <2>7. Owed(c)'
    <3>1. Running(c)' = Running(c) /\ inbox'[c] = inbox[c]
      BY <2>1 DEF Running
    <3> QED
      BY <1>1, <1>2, <2>2, <2>3, <2>5, <3>1 DEF Owed
  <2>8. \A d \in Clients : d # c => Owed(d)'
    BY <2>1, <2>5, OwedFrame DEF TInv
  <2> QED
    BY <2>6, <2>7, <2>8 DEF TInv
<1>4. CASE ReadAnswer(c)
  <2>1. /\ inbox[c] # <<>>
        /\ inbox' = [inbox EXCEPT ![c] = Tail(inbox[c])]
        /\ waiting' = [waiting EXCEPT ![c] = Tail(waiting[c])]
        /\ UNCHANGED <<client, stream, reset, sent, up, open, buffer, pc, cmd, answer, store, log>>
    BY <1>4 DEF ReadAnswer
  <2>2. Len(inbox[c]) > 0
    BY <1>1, <2>1, EmptySeq
  <2>3. waiting[c] # <<>>
    <3>1. Len(waiting[c]) > 0
      BY <1>1, <1>2, <2>2
    <3> QED
      BY <3>1, EmptySeq
  <2> DEFINE t == Tail(inbox[c])
             u == Tail(waiting[c])
  <2>4. t \in Seq(Answers) /\ Len(t) = Len(inbox[c]) - 1
    BY <1>1, <2>1, HeadTailProperties
  <2>5. u \in Seq(Lines) /\ Len(u) = Len(waiting[c]) - 1
    BY <1>1, <2>3, HeadTailProperties
  <2>6. inbox' = [inbox EXCEPT ![c] = t] /\ waiting' = [waiting EXCEPT ![c] = u]
    BY <2>1
  <2> HIDE DEF t, u
  <2>7. /\ inbox'[c] = t /\ waiting'[c] = u
        /\ \A d \in Clients : d # c => inbox'[d] = inbox[d] /\ waiting'[d] = waiting[d]
    BY <2>6 DEF TInv, TypeOK
  <2>8. TypeOK'
    BY <2>1, <2>4, <2>5, <2>6 DEF TInv, TypeOK
  <2>9. Owed(c)'
    <3>1. Running(c)' = Running(c) /\ stream'[c] = stream[c]
      BY <2>1 DEF Running
    <3> QED
      BY <1>1, <1>2, <2>4, <2>5, <2>7, <3>1 DEF Owed
  <2>10. \A d \in Clients : d # c => Owed(d)'
    BY <2>1, <2>7, OwedFrame DEF TInv
  <2> QED
    BY <2>8, <2>9, <2>10 DEF TInv
<1>5. CASE Leave(c)
  <2>1. /\ client' = [client EXCEPT ![c] = "left"]
        /\ UNCHANGED <<waiting, inbox, reset, sent, up, open, buffer, pc, cmd, answer, store, log>>
    BY <1>5 DEF Leave
  <2>2. PICK n \in 0 .. Len(stream[c]) :
          stream' = [stream EXCEPT ![c] = SubSeq(stream[c], 1, n)]
    BY <1>5 DEF Leave
  <2>3. n \in Nat /\ n <= Len(stream[c])
    BY <1>1, LenProperties
  <2> DEFINE t == SubSeq(stream[c], 1, n)
  <2>4. t \in Seq(Bytes) /\ Cardinality(Newlines(t)) <= Cardinality(Newlines(stream[c]))
    BY <1>1, <2>3, Cut, NewlinesPrefix
  <2>5. stream' = [stream EXCEPT ![c] = t]
    BY <2>2
  <2> HIDE DEF t
  <2>6. stream'[c] = t /\ \A d \in Clients : d # c => stream'[d] = stream[d]
    BY <2>5 DEF TInv, TypeOK
  <2>7. TypeOK'
    BY <2>1, <2>4, <2>5 DEF TInv, TypeOK, Bytes
  <2>8. Owed(c)'
    <3>1. Running(c)' = Running(c) /\ inbox'[c] = inbox[c] /\ waiting'[c] = waiting[c]
      BY <2>1 DEF Running
    <3>2. Cardinality(Newlines(t)) \in Nat
      BY <2>4, NewlinesFinite
    <3> QED
      BY <1>1, <1>2, <2>4, <2>6, <3>1, <3>2 DEF Owed
  <2>9. \A d \in Clients : d # c => Owed(d)'
    BY <2>1, <2>6, OwedFrame DEF TInv
  <2> QED
    BY <2>7, <2>8, <2>9 DEF TInv
<1> QED
  BY <1>3, <1>4, <1>5

(* One recv, whatever becomes of its bytes. *)
LEMMA TReceived ==
    ASSUME TInv, NEW c \in Clients, NEW n \in 1 .. RecvSize, Received(c, n)
    PROVE  /\ n \in Nat /\ n <= Len(stream[c]) /\ pc[c] = "idle" /\ open[c]
           /\ UNCHANGED <<client, waiting, inbox, reset, sent, up, answer, store, log>>
           /\ stream' \in [Clients -> Seq(Bytes)]
           /\ \A d \in Clients : d # c => stream'[d] = stream[d]
           /\ Collected(c, n) \in Seq(Bytes)
           /\ Cardinality(Newlines(stream'[c])) \in Nat
           /\ Cardinality(Newlines(stream'[c])) + Len(inbox[c]) <= Len(waiting[c])
           /\ Contains(Collected(c, n), Newline) =>
                Cardinality(Newlines(stream'[c])) + 1 + Len(inbox[c]) <= Len(waiting[c])
<1>1. /\ n \in Nat /\ n <= Len(stream[c]) /\ pc[c] = "idle" /\ open[c]
      /\ UNCHANGED <<client, waiting, inbox, reset, sent, up, answer, store, log>>
      /\ stream' = [stream EXCEPT ![c] = SubSeq(stream[c], n + 1, Len(stream[c]))]
  BY ConstantsAssumption DEF Received, CanRecv
<1>2. /\ Cardinality(Newlines(stream[c])) \in Nat /\ stream[c] \in Seq(Bytes)
      /\ Len(inbox[c]) \in Nat /\ Len(waiting[c]) \in Nat
      /\ Cardinality(Newlines(stream[c])) + 0 + Len(inbox[c]) <= Len(waiting[c])
  BY <1>1, OwedTypes DEF TInv, Owed, Running
<1> DEFINE t == SubSeq(stream[c], n + 1, Len(stream[c]))
<1>3. /\ t \in Seq(Bytes) /\ Cardinality(Newlines(t)) <= Cardinality(Newlines(stream[c]))
      /\ (\E i \in 1 .. n : stream[c][i] = Newline) =>
           Cardinality(Newlines(t)) + 1 <= Cardinality(Newlines(stream[c]))
  BY <1>1, <1>2, Cut, NewlinesRest
<1>4. stream' = [stream EXCEPT ![c] = t]
  BY <1>1
<1>5. Cardinality(Newlines(t)) \in Nat
  BY <1>3, NewlinesFinite
<1> HIDE DEF t
<1>6. stream'[c] = t /\ \A d \in Clients : d # c => stream'[d] = stream[d]
  BY <1>4 DEF TInv, TypeOK
<1>7. stream' \in [Clients -> Seq(Bytes)]
  BY <1>3, <1>4 DEF TInv, TypeOK, Bytes
<1>8. /\ Collected(c, n) \in Seq(Bytes)
      /\ Contains(Collected(c, n), Newline) => \E i \in 1 .. n : stream[c][i] = Newline
  <2>1. buffer[c] \in Seq(Words)
    BY DEF TInv, TypeOK
  <2> QED
    BY <1>1, <1>2, <2>1, CollectedHas
<1>9. Cardinality(Newlines(t)) + Len(inbox[c]) <= Len(waiting[c])
  BY <1>2, <1>3, <1>5
<1>10. Contains(Collected(c, n), Newline) =>
         Cardinality(Newlines(t)) + 1 + Len(inbox[c]) <= Len(waiting[c])
  BY <1>2, <1>3, <1>5, <1>8
<1> QED
  BY <1>1, <1>5, <1>6, <1>7, <1>8, <1>9, <1>10

(* messageHandler reads. *)
LEMMA TInvRecv ==
    ASSUME TInv, NEW c \in Clients, Recv(c)
    PROVE  TInv'
<1>1. ASSUME NEW n \in 1 .. RecvSize, Received(c, n), pc'[c] = "idle",
             \A d \in Clients : d # c => pc'[d] = pc[d]
      PROVE  \A d \in Clients : Owed(d)'
  <2>1. Owed(c)'
    <3>1. /\ Cardinality(Newlines(stream'[c])) \in Nat
          /\ Cardinality(Newlines(stream'[c])) + Len(inbox[c]) <= Len(waiting[c])
          /\ UNCHANGED <<inbox, waiting>>
      BY <1>1, TReceived
    <3>2. Len(inbox[c]) \in Nat /\ Running(c)' = 0
      BY <1>1, OwedTypes DEF Running
    <3> QED
      BY <3>1, <3>2 DEF Owed
  <2>2. \A d \in Clients : d # c => Owed(d)'
    BY <1>1, TReceived, OwedFrame DEF TInv
  <2> QED
    BY <2>1, <2>2
<1>2. ASSUME NEW n \in 1 .. RecvSize, RecvTooMuch(c, n)
      PROVE  TInv'
  <2>1. Received(c, n) /\ open' = [open EXCEPT ![c] = FALSE] /\ UNCHANGED <<buffer, pc, cmd>>
    BY <1>2 DEF RecvTooMuch
  <2>2. open' \in [Clients -> BOOLEAN]
    BY <2>1 DEF TInv, TypeOK
  <2>3. TypeOK'
    BY <2>1, <2>2, TReceived DEF TInv, TypeOK, Bytes
  <2>4. pc[c] = "idle"
    BY <2>1, TReceived
  <2> QED
    BY <1>1, <2>1, <2>3, <2>4 DEF TInv
<1>3. ASSUME NEW n \in 1 .. RecvSize, RecvPart(c, n)
      PROVE  TInv'
  <2>1. /\ Received(c, n) /\ ~(Len(Collected(c, n)) > MaxBuffer)
        /\ ~Contains(Collected(c, n), Newline)
        /\ buffer' = [buffer EXCEPT ![c] = Collected(c, n)]
        /\ UNCHANGED <<open, pc, cmd>>
    BY <1>3 DEF RecvPart, TooLong, Complete
  <2> DEFINE b == Collected(c, n)
  <2>2. b \in Seq(Words) /\ Len(b) <= MaxBuffer
    <3>1. b \in Seq(Bytes)
      BY <2>1, TReceived
    <3>2. b \in Seq(Words) /\ Len(b) \in Nat
      BY <2>1, <3>1, OnlyWords, LenProperties
    <3> QED
      BY <2>1, <3>2, ConstantsAssumption
  <2>3. buffer' = [buffer EXCEPT ![c] = b]
    BY <2>1
  <2> HIDE DEF b
  <2>4. buffer' \in [Clients -> Seq(Words)] /\ \A d \in Clients : Len(buffer'[d]) <= MaxBuffer
    BY <2>2, <2>3 DEF TInv, TypeOK
  <2>5. TypeOK'
    BY <2>1, <2>4, TReceived DEF TInv, TypeOK, Bytes
  <2>6. pc[c] = "idle"
    BY <2>1, TReceived
  <2> QED
    BY <1>1, <2>1, <2>5, <2>6 DEF TInv
<1>4. ASSUME NEW n \in 1 .. RecvSize, RecvMessage(c, n)
      PROVE  TInv'
  <2>1. /\ Received(c, n) /\ Contains(Collected(c, n), Newline)
        /\ cmd' = [cmd EXCEPT ![c] = Parse(Collected(c, n))]
        /\ buffer' = [buffer EXCEPT ![c] = <<>>]
        /\ pc' = [pc EXCEPT ![c] = "execute"]
        /\ UNCHANGED open
    BY <1>4 DEF RecvMessage, Complete, LeftOver
  <2>2. Parse(Collected(c, n)) \in Commands
    BY <2>1, TReceived, ParseType
  <2>3. cmd' \in [Clients -> Commands]
    BY <2>1, <2>2 DEF TInv, TypeOK
  <2>4. buffer' \in [Clients -> Seq(Words)] /\ \A d \in Clients : Len(buffer'[d]) <= MaxBuffer
    <3>1. <<>> \in Seq(Words) /\ Len(<<>>) <= MaxBuffer
      BY EmptySeq, ConstantsAssumption
    <3> QED
      BY <2>1, <3>1 DEF TInv, TypeOK
  <2>5. /\ pc' \in [Clients -> {"idle", "execute", "log", "send"}] /\ pc'[c] = "execute"
        /\ \A d \in Clients : d # c => pc'[d] = pc[d]
    BY <2>1 DEF TInv, TypeOK
  <2>6. TypeOK'
    <3>1. /\ UNCHANGED <<client, waiting, inbox, reset, sent, up, answer, store, log>>
          /\ stream' \in [Clients -> Seq(Bytes)]
      BY <2>1, TReceived
    <3>2. \A d \in Clients : pc'[d] \in {"log", "send"} => answer'[d] # None
      BY <2>5, <3>1 DEF TInv, TypeOK
    <3> QED
      BY <2>1, <2>3, <2>4, <2>5, <3>1, <3>2 DEF TInv, TypeOK, Bytes
  <2>7. Owed(c)'
    <3>1. /\ Cardinality(Newlines(stream'[c])) + 1 + Len(inbox[c]) <= Len(waiting[c])
          /\ UNCHANGED <<inbox, waiting>>
      BY <2>1, TReceived
    <3>2. Running(c)' = 1
      BY <2>5 DEF Running
    <3> QED
      BY <3>1, <3>2 DEF Owed
  <2>8. \A d \in Clients : d # c => Owed(d)'
    BY <2>1, <2>5, TReceived, OwedFrame DEF TInv
  <2> QED
    BY <2>6, <2>7, <2>8 DEF TInv
<1>5. CASE RecvEnd(c)
  <2>1. /\ open' = [open EXCEPT ![c] = FALSE]
        /\ UNCHANGED <<client, waiting, stream, inbox, reset, sent, up, buffer, pc, cmd, answer,
                       store, log>>
    BY <1>5 DEF RecvEnd, clientVars
  <2>2. open' \in [Clients -> BOOLEAN]
    BY <2>1 DEF TInv, TypeOK
  <2>3. TypeOK'
    BY <2>1, <2>2 DEF TInv, TypeOK
  <2>4. \A d \in Clients : Owed(d)'
    BY <2>1, OwedFrame DEF TInv
  <2> QED
    BY <2>3, <2>4 DEF TInv
<1> QED
  BY <1>2, <1>3, <1>4, <1>5 DEF Recv

(* A handler that goes on owes what it owed. *)
LEMMA OwedBusy ==
    ASSUME TInv, NEW c \in Clients, pc[c] # "idle", NEW next \in {"log", "send"},
           pc' = [pc EXCEPT ![c] = next], UNCHANGED <<waiting, stream, inbox>>
    PROVE  /\ \A d \in Clients : Owed(d)'
           /\ pc' \in [Clients -> {"idle", "execute", "log", "send"}] /\ pc'[c] = next
           /\ \A d \in Clients : d # c => pc'[d] = pc[d]
<1>1. /\ pc' \in [Clients -> {"idle", "execute", "log", "send"}] /\ pc'[c] = next
      /\ \A d \in Clients : d # c => pc'[d] = pc[d]
  BY DEF TInv, TypeOK
<1>2. \A d \in Clients : Running(d)' = Running(d)
  BY <1>1 DEF Running
<1>3. \A d \in Clients : Owed(d)'
  BY <1>2 DEF TInv, Owed
<1> QED
  BY <1>1, <1>3

(* messageHandler carries the command out, logs it and answers. *)
LEMMA TInvCommand ==
    ASSUME TInv, NEW c \in Clients,
           \/ Insert(c) \/ InsertNothing(c) \/ Get(c) \/ Delete(c) \/ Unknown(c)
           \/ AppendToLog(c) \/ SendAnswer(c)
    PROVE  TInv'
<1>1. cmd[c] \in Commands /\ cmd[c].key \in Strings /\ cmd[c].value \in Strings /\ Empty \in Strings
  BY DEF TInv, TypeOK, Commands, Strings
<1>2. ASSUME NEW a \in Answers, NEW next \in {"log", "send"}, Executed(c, a, next),
             store' \in [Strings -> Strings]
      PROVE  TInv'
  <2>1. /\ pc[c] = "execute" /\ answer' = [answer EXCEPT ![c] = a]
        /\ pc' = [pc EXCEPT ![c] = next]
        /\ UNCHANGED <<client, waiting, stream, inbox, reset, sent, up, open, buffer, cmd, log>>
    BY <1>2 DEF Executed, clientVars
  <2>2. /\ \A d \in Clients : Owed(d)'
        /\ pc' \in [Clients -> {"idle", "execute", "log", "send"}] /\ pc'[c] = next
        /\ \A d \in Clients : d # c => pc'[d] = pc[d]
    BY <2>1, OwedBusy
  <2>3. /\ answer' \in [Clients -> Answers \union {None}] /\ answer'[c] = a /\ a # None
        /\ \A d \in Clients : d # c => answer'[d] = answer[d]
    BY <2>1, NoneIsNoAnswer DEF TInv, TypeOK
  <2>4. \A d \in Clients : pc'[d] \in {"log", "send"} => answer'[d] # None
    BY <2>2, <2>3 DEF TInv, TypeOK
  <2>5. TypeOK'
    BY <1>2, <2>1, <2>2, <2>3, <2>4 DEF TInv, TypeOK
  <2> QED
    BY <2>2, <2>5 DEF TInv
<1>3. /\ <<"inserted">> \in Answers /\ <<"deleted">> \in Answers /\ <<"not found">> \in Answers
      /\ <<"empty value">> \in Answers /\ <<"no command">> \in Answers
      /\ \A v \in Words : <<"found", v>> \in Answers
  BY DEF Answers
<1>4. CASE Insert(c)
  <2>1. store' \in [Strings -> Strings]
    BY <1>1, <1>4 DEF Insert, TInv, TypeOK
  <2> QED
    BY <1>2, <1>3, <1>4, <2>1 DEF Insert, AfterWrite
<1>5. CASE InsertNothing(c)
  <2>1. store' \in [Strings -> Strings]
    BY <1>5 DEF InsertNothing, TInv, TypeOK
  <2> QED
    BY <1>2, <1>3, <1>5, <2>1 DEF InsertNothing
<1>6. CASE Get(c)
  <2> DEFINE v == store[cmd[c].key]
             a == IF v = Empty THEN <<"not found">> ELSE <<"found", v>>
  <2>1. store' \in [Strings -> Strings] /\ v \in Words \union {Empty}
    BY <1>1, <1>6 DEF Get, TInv, TypeOK, Strings
  <2>2. a \in Answers
    <3> HIDE DEF v
    <3> QED
      BY <1>3, <2>1
  <2>3. Executed(c, a, "send")
    BY <1>6 DEF Get
  <2> HIDE DEF a
  <2> QED
    BY <1>2, <2>1, <2>2, <2>3
<1>7. CASE Delete(c)
  <2>1. store' \in [Strings -> Strings]
    BY <1>1, <1>7 DEF Delete, TInv, TypeOK
  <2> QED
    BY <1>2, <1>3, <1>7, <2>1 DEF Delete, AfterWrite
<1>8. CASE Unknown(c)
  <2>1. store' \in [Strings -> Strings]
    BY <1>8 DEF Unknown, TInv, TypeOK
  <2> QED
    BY <1>2, <1>3, <1>8, <2>1 DEF Unknown
<1>9. CASE AppendToLog(c)
  <2>1. /\ pc[c] = "log" /\ log' = Append(log, cmd[c]) /\ pc' = [pc EXCEPT ![c] = "send"]
        /\ UNCHANGED <<client, waiting, stream, inbox, reset, sent, up, open, buffer, cmd, answer,
                       store>>
    BY <1>9 DEF AppendToLog, clientVars
  <2>2. /\ \A d \in Clients : Owed(d)'
        /\ pc' \in [Clients -> {"idle", "execute", "log", "send"}] /\ pc'[c] = "send"
        /\ \A d \in Clients : d # c => pc'[d] = pc[d]
    BY <2>1, OwedBusy
  <2>3. log' \in Seq(Commands)
    BY <1>1, <2>1, AppendProperties DEF TInv, TypeOK
  <2>4. \A d \in Clients : pc'[d] \in {"log", "send"} => answer'[d] # None
    BY <2>1, <2>2 DEF TInv, TypeOK
  <2>5. TypeOK'
    BY <2>1, <2>2, <2>3, <2>4 DEF TInv, TypeOK
  <2> QED
    BY <2>2, <2>5 DEF TInv
<1>10. CASE SendAnswer(c)
  <2>1. /\ pc[c] = "send" /\ pc' = [pc EXCEPT ![c] = "idle"]
        /\ inbox' = [inbox EXCEPT ![c] = Append(inbox[c], answer[c])]
        /\ answer' = [answer EXCEPT ![c] = None]
        /\ reset' = IF client[c] = "left" THEN reset \union {c} ELSE reset
        /\ up' = (c \notin reset)
        /\ UNCHANGED <<client, waiting, stream, sent, open, buffer, cmd, store, log>>
    BY <1>10 DEF SendAnswer
  <2>2. answer[c] \in Answers
    BY <2>1 DEF TInv, TypeOK
  <2> DEFINE t == Append(inbox[c], answer[c])
  <2>3. t \in Seq(Answers) /\ Len(t) = Len(inbox[c]) + 1
    BY <2>2, OwedTypes, AppendProperties
  <2>4. inbox' = [inbox EXCEPT ![c] = t]
    BY <2>1
  <2> HIDE DEF t
  <2>5. /\ pc' \in [Clients -> {"idle", "execute", "log", "send"}] /\ pc'[c] = "idle"
        /\ inbox' \in [Clients -> Seq(Answers)] /\ inbox'[c] = t
        /\ answer' \in [Clients -> Answers \union {None}]
        /\ \A d \in Clients : d # c =>
             pc'[d] = pc[d] /\ answer'[d] = answer[d] /\ inbox'[d] = inbox[d]
    BY <2>1, <2>3, <2>4 DEF TInv, TypeOK
  <2>6. \A d \in Clients : pc'[d] \in {"log", "send"} => answer'[d] # None
    BY <2>5 DEF TInv, TypeOK
  <2>7. reset' \subseteq Clients
    BY <2>1 DEF TInv, TypeOK
  <2>8. up' \in BOOLEAN
    BY <2>1, Zenon
  <2>9. TypeOK'
    BY <2>1, <2>5, <2>6, <2>7, <2>8 DEF TInv, TypeOK
  <2>10. Owed(c)'
    <3>1. Running(c) = 1 /\ Running(c)' = 0
      BY <2>1, <2>5 DEF Running
    <3>2. Cardinality(Newlines(stream[c])) + 1 + Len(inbox[c]) <= Len(waiting[c])
      BY <3>1 DEF TInv, Owed
    <3> QED
      BY <2>1, <2>3, <2>5, <3>1, <3>2, OwedTypes DEF Owed
  <2>11. \A d \in Clients : d # c => Owed(d)'
    BY <2>1, <2>5, OwedFrame DEF TInv
  <2> QED
    BY <2>9, <2>10, <2>11 DEF TInv
<1> QED
  BY <1>4, <1>5, <1>6, <1>7, <1>8, <1>9, <1>10

(* Every step keeps the types. *)
LEMMA TInvStep == TInv /\ [Next]_vars => TInv'
<1> SUFFICES ASSUME TInv, [Next]_vars
             PROVE  TInv'
  OBVIOUS
<1>1. CASE UNCHANGED vars
  <2>1. \A c \in Clients : Owed(c)'
    BY <1>1, OwedFrame DEF TInv, vars
  <2>2. TypeOK'
    BY <1>1 DEF TInv, TypeOK, vars
  <2> QED
    BY <2>1, <2>2 DEF TInv
<1> QED
  BY <1>1, TInvClient, TInvRecv, TInvCommand DEF Next, Handle

(* The types of CommandProtocol hold for clients however far ahead of their  *)
(* answers: commandBuffer holds an unfinished line within                    *)
(* MAX_COMMAND_BUFFER_LENGTH, a handler that sends has an answer, and a      *)
(* client never reads an answer to a line it has not sent.                   *)
THEOREM TypeCorrect == Spec => []TypeOK
<1>1. TInv => TypeOK
  BY DEF TInv
<1> QED
  BY <1>1, TInvInit, TInvStep, PTL DEF Spec

-----------------------------------------------------------------------------
(* The service, for clients that wait for each answer (Window = 1). What is  *)
(* under way of a line is its next part, so a complete message is the line,  *)
(* and from there to the answer the handler works on that line's command.    *)

Line(c) == Append(Head(waiting[c]), Newline)

(* Buffer and stream together are a beginning of the line. *)
Prefix(c) ==
    waiting[c] # <<>> /\ open[c] =>
        /\ \A i \in 1 .. Len(buffer[c]) : buffer[c][i] = Line(c)[i]
        /\ \A i \in 1 .. Len(stream[c]) : stream[c][i] = Line(c)[Len(buffer[c]) + i]

Writes == {<<"inserted">>, <<"deleted">>}

(* The handler works on the line's command and logs a write before it sends. *)
Answering(c) ==
    /\ pc[c] \in {"idle", "execute"} => answer[c] = None
    /\ pc[c] # "idle" => cmd[c] = Parse(Line(c))
    /\ pc[c] = "send" /\ answer[c] \in Writes => Contains(log, cmd[c])
    /\ inbox[c] # <<>> /\ Head(inbox[c]) \in Writes => Contains(log, Parse(Line(c)))

(* Nothing is stored under the empty key. *)
DInv == store[Empty] = Empty /\ \A c \in Clients : Prefix(c) /\ Answering(c)

(* The only newline of a line is its last unit. *)
LEMMA LineOf ==
    ASSUME NEW l \in Lines
    PROVE  /\ Len(l) \in Nat /\ l \in Seq(Words)
           /\ Append(l, Newline) \in Seq(Bytes) /\ Len(Append(l, Newline)) = Len(l) + 1
           /\ DOMAIN Append(l, Newline) = 1 .. Len(l) + 1
           /\ \A i \in 1 .. Len(l) : /\ Append(l, Newline)[i] = l[i]
                                     /\ l[i] \in Words /\ l[i] # Newline
           /\ Append(l, Newline)[Len(l) + 1] = Newline
<1>1. l \in Seq(Words) /\ l \in Seq(Bytes) /\ Newline \in Bytes
  BY ConstantsAssumption, SeqMonotonic DEF Bytes
<1>2. Len(l) \in Nat /\ \A i \in 1 .. Len(l) : l[i] \in Words /\ l[i] # Newline
  BY <1>1, ElementOfSeq, LenProperties, ConstantsAssumption
<1>3. /\ Append(l, Newline) \in Seq(Bytes) /\ Len(Append(l, Newline)) = Len(l) + 1
      /\ \A i \in 1 .. Len(l) : Append(l, Newline)[i] = l[i]
      /\ Append(l, Newline)[Len(l) + 1] = Newline
  BY <1>1, AppendProperties
<1>4. DOMAIN Append(l, Newline) = 1 .. Len(l) + 1
  BY <1>2, <1>3, LenProperties
<1> QED
  BY <1>1, <1>2, <1>3, <1>4

(* operator>> finds the words of a line in their order. *)
LEMMA WordOfLine ==
    ASSUME NEW l \in Lines, NEW n \in Nat \ {0}
    PROVE  Word(Append(l, Newline), n) = IF n <= Len(l) THEN l[n] ELSE Empty
<1> DEFINE m == Append(l, Newline)
           words == {i \in DOMAIN m : m[i] # Newline}
           nth == {i \in words : Cardinality({j \in words : j <= i}) = n}
<1>1. Word(m, n) = IF nth = {} THEN Empty ELSE m[CHOOSE i \in nth : TRUE]
  BY DEF Word
<1>2. Len(l) \in Nat /\ \A i \in 1 .. Len(l) : m[i] = l[i]
  BY LineOf
<1>3. words = 1 .. Len(l)
  <2>1. DOMAIN m = 1 .. Len(l) + 1 /\ m[Len(l) + 1] = Newline
    BY LineOf
  <2>2. \A i \in 1 .. Len(l) : m[i] # Newline
    BY LineOf
  <2>3. \A i \in 1 .. Len(l) + 1 : i \in 1 .. Len(l) \/ i = Len(l) + 1
    BY <1>2
  <2>4. 1 .. Len(l) \subseteq 1 .. Len(l) + 1
    BY <1>2
  <2> HIDE DEF m
  <2> QED
    BY <2>1, <2>2, <2>3, <2>4
<1> HIDE DEF words
<1>4. \A i \in words : Cardinality({j \in words : j <= i}) = i
  <2> TAKE i \in words
  <2>1. i \in Nat /\ i >= 1 /\ i <= Len(l)
    BY <1>2, <1>3
  <2>2. {j \in words : j <= i} = 1 .. i
    BY <1>2, <1>3, <2>1
  <2>3. Cardinality(1 .. i) = i
    BY <2>1, FS_Interval
  <2> QED
    BY <2>2, <2>3
<1>5. nth = IF n <= Len(l) THEN {n} ELSE {}
  <2>1. nth = {i \in words : i = n}
    BY <1>4
  <2>2. n \in words <=> n <= Len(l)
    BY <1>2, <1>3
  <2> QED
    BY <2>1, <2>2
<1> HIDE DEF nth, m
<1>6. CASE n <= Len(l)
  <2>1. (CHOOSE i \in nth : TRUE) = n
    BY <1>5, <1>6
  <2>2. n \in 1 .. Len(l)
    BY <1>2, <1>6
  <2> QED
    BY <1>1, <1>2, <1>5, <1>6, <2>1, <2>2 DEF m
<1>7. CASE ~(n <= Len(l))
  BY <1>1, <1>5, <1>7 DEF m
<1> QED
  BY <1>6, <1>7

(* The command of a line, by its words. *)
LEMMA ParseLine ==
    ASSUME NEW l \in Lines
    PROVE  /\ Parse(Append(l, Newline)).command = IF 1 <= Len(l) THEN l[1] ELSE Empty
           /\ Parse(Append(l, Newline)).key = IF 2 <= Len(l) THEN l[2] ELSE Empty
           /\ Parse(Append(l, Newline)).value =
                IF Parse(Append(l, Newline)).command = "INSERT" /\ 3 <= Len(l) THEN l[3] ELSE Empty
<1>1. /\ Word(Append(l, Newline), 1) = IF 1 <= Len(l) THEN l[1] ELSE Empty
      /\ Word(Append(l, Newline), 2) = IF 2 <= Len(l) THEN l[2] ELSE Empty
      /\ Word(Append(l, Newline), 3) = IF 3 <= Len(l) THEN l[3] ELSE Empty
  BY WordOfLine
<1> QED
  BY <1>1 DEF Parse

(* A client that waits, waits for a line. *)
LEMMA WaitsForLine ==
    ASSUME IInv, NEW c \in Clients, waiting[c] # <<>>
    PROVE  Head(waiting[c]) \in Lines
BY OneLine, Zenon DEF IInv, Good, OneAtATime

(* What commandBuffer holds after a recv is the beginning of the line, and   *)
(* once it holds a newline it is the line.                                   *)
LEMMA MessageIsLine ==
    ASSUME IInv, DInv, NEW c \in Clients, NEW n \in 1 .. RecvSize, Received(c, n)
    PROVE  /\ \A i \in 1 .. Len(buffer[c]) + n : Collected(c, n)[i] = Line(c)[i]
           /\ Contains(Collected(c, n), Newline) => Collected(c, n) = Line(c)
<1>1. /\ n \in Nat /\ n <= Len(stream[c]) /\ waiting[c] # <<>> /\ open[c]
  BY ReceivedIs
<1> DEFINE l == Head(waiting[c])
           b == Len(buffer[c])
           m == Collected(c, n)
<1>2. l \in Lines
  BY <1>1, WaitsForLine
<1>3. /\ stream[c] \in Seq(Bytes) /\ buffer[c] \in Seq(Words) /\ Len(stream[c]) \in Nat /\ b \in Nat
  BY LenProperties DEF IInv, Typed
<1>4. /\ m \in Seq(Bytes) /\ Len(m) = b + n
      /\ \A i \in 1 .. b + n : m[i] = IF i <= b THEN buffer[c][i] ELSE stream[c][i - b]
  BY <1>1, <1>3, CollectedHas
<1>5. /\ \A i \in 1 .. b : buffer[c][i] = Line(c)[i]
      /\ \A i \in 1 .. Len(stream[c]) : stream[c][i] = Line(c)[b + i]
  BY <1>1 DEF DInv, Prefix
<1>6. /\ Len(l) \in Nat /\ Line(c) \in Seq(Bytes) /\ Len(Line(c)) = Len(l) + 1
      /\ \A i \in 1 .. Len(l) : Line(c)[i] # Newline
  BY <1>2, LineOf DEF Line
<1>7. b + Len(stream[c]) <= Len(l) + 1
  BY <1>1 DEF IInv, Good, LineUnderWay
<1> HIDE DEF l, b, m
<1>8. ASSUME NEW i \in 1 .. b + n
      PROVE  m[i] = Line(c)[i]
  <2>1. CASE i <= b
    <3>1. i \in 1 .. b
      BY <1>3, <2>1
    <3> QED
      BY <1>4, <1>5, <2>1, <3>1
  <2>2. CASE ~(i <= b)
    <3>1. i - b \in 1 .. Len(stream[c]) /\ b + (i - b) = i
      BY <1>1, <1>3, <2>2
    <3>2. m[i] = stream[c][i - b]
      BY <1>4, <2>2
    <3>3. stream[c][i - b] = Line(c)[b + (i - b)]
      BY <1>5, <3>1
    <3> QED
      BY <3>1, <3>2, <3>3
  <2> QED
    BY <2>1, <2>2
<1>9. ASSUME Contains(m, Newline)
      PROVE  m = Line(c)
  <2>1. DOMAIN m = 1 .. b + n
    BY <1>4, LenProperties
  <2>2. PICK i \in 1 .. b + n : Line(c)[i] = Newline
    BY <1>8, <1>9, <2>1 DEF Contains
  <2>3. i \notin 1 .. Len(l)
    BY <1>6, <2>2
  <2>4. b + n = Len(l) + 1
    BY <1>1, <1>3, <1>6, <1>7, <2>2, <2>3
  <2> QED
    BY <1>4, <1>6, <1>8, <2>4, SeqEqual
<1> QED
  BY <1>8, <1>9 DEF b, m

(* Nothing is under way, stored or logged. *)
LEMMA DInvInit == Init => DInv
<1> SUFFICES ASSUME Init
             PROVE  DInv
  OBVIOUS
<1>1. store[Empty] = Empty
  BY DEF Init, Strings
<1>2. \A c \in Clients : Prefix(c) /\ Answering(c)
  BY DEF Init, Prefix, Answering
<1> QED
  BY <1>1, <1>2 DEF DInv

(* A step of one client, if it logs at most more, says nothing of another. *)
LEMMA DFrame ==
    ASSUME NEW d, Prefix(d), Answering(d), \A x : Contains(log, x) => Contains(log', x),
           waiting'[d] = waiting[d], open'[d] = open[d], buffer'[d] = buffer[d],
           stream'[d] = stream[d], pc'[d] = pc[d], cmd'[d] = cmd[d], answer'[d] = answer[d],
           inbox'[d] = inbox[d]
    PROVE  Prefix(d)' /\ Answering(d)'
<1>1. Line(d)' = Line(d)
  BY DEF Line
<1>2. Prefix(d)'
  BY <1>1 DEF Prefix
<1>3. Answering(d)'
  BY <1>1 DEF Answering
<1> QED
  BY <1>2, <1>3

(* A client sends a line, reads an answer or leaves. *)
LEMMA DInvClient ==
    ASSUME IInv, TInv, DInv, Window = 1, NEW c \in Clients,
           (\E l \in Lines : SendLine(c, l)) \/ ReadAnswer(c) \/ Leave(c)
    PROVE  DInv'
<1>1. UNCHANGED <<open, buffer, pc, cmd, answer, store, log>>
  BY DEF SendLine, ReadAnswer, Leave
<1>2. ASSUME Prefix(c)', Answering(c)',
             \A d \in Clients : d # c => waiting'[d] = waiting[d] /\ stream'[d] = stream[d] /\
                                         inbox'[d] = inbox[d]
      PROVE  DInv'
  <2>1. \A d \in Clients : d # c => Prefix(d)' /\ Answering(d)'
    BY <1>1, <1>2, DFrame DEF DInv
  <2> QED
    BY <1>1, <1>2, <2>1 DEF DInv
<1>3. ASSUME NEW l \in Lines, SendLine(c, l)
      PROVE  DInv'
  <2>1. /\ waiting[c] = <<>> /\ stream[c] = <<>> /\ buffer[c] = <<>> /\ inbox[c] = <<>>
        /\ pc[c] = "idle"
    BY <1>3, NothingUnderWay
  <2>2. /\ stream' = [stream EXCEPT ![c] = stream[c] \o Append(l, Newline)]
        /\ waiting' = [waiting EXCEPT ![c] = Append(waiting[c], l)]
        /\ UNCHANGED inbox
    BY <1>3 DEF SendLine
  <2>3. <<>> \o Append(l, Newline) = Append(l, Newline)
    BY LineOf, ConcatEmptySeq
  <2>4. /\ stream'[c] = Append(l, Newline) /\ waiting'[c] = Append(<<>>, l)
        /\ \A d \in Clients : d # c => stream'[d] = stream[d] /\ waiting'[d] = waiting[d]
    BY <2>1, <2>2, <2>3 DEF TInv, TypeOK
  <2>5. Line(c)' = Append(l, Newline)
    BY <2>4, OneLine DEF Line
  <2>6. Prefix(c)'
    <3>1. Len(buffer'[c]) = 0 /\ Len(stream'[c]) \in Nat
      BY <1>1, <2>1, <2>4, LineOf, LenProperties, EmptySeq
    <3>2. \A i \in 1 .. Len(stream'[c]) : 0 + i = i
      BY <3>1
    <3> QED
      BY <2>4, <2>5, <3>1, <3>2 DEF Prefix
  <2>7. Answering(c)'
    BY <1>1, <2>1, <2>2 DEF DInv, Answering
  <2> QED
    BY <1>2, <2>2, <2>4, <2>6, <2>7
<1>4. CASE ReadAnswer(c)
  <2>1. /\ inbox' = [inbox EXCEPT ![c] = Tail(inbox[c])]
        /\ waiting' = [waiting EXCEPT ![c] = Tail(waiting[c])]
        /\ UNCHANGED stream
    BY <1>4 DEF ReadAnswer
  <2>2. /\ inbox'[c] = <<>> /\ waiting'[c] = <<>> /\ pc[c] = "idle"
        /\ \A d \in Clients : d # c => inbox'[d] = inbox[d] /\ waiting'[d] = waiting[d]
    BY <1>4, <2>1, NothingLeft DEF TInv, TypeOK
  <2>3. Prefix(c)' /\ Answering(c)'
    BY <1>1, <2>2 DEF DInv, Prefix, Answering
  <2> QED
    BY <1>2, <2>1, <2>2, <2>3
<1>5. CASE Leave(c)
  <2>1. PICK n \in 0 .. Len(stream[c]) :
          stream' = [stream EXCEPT ![c] = SubSeq(stream[c], 1, n)]
    BY <1>5 DEF Leave
  <2>2. UNCHANGED <<waiting, inbox>>
    BY <1>5 DEF Leave
  <2>3. stream[c] \in Seq(Bytes) /\ Len(stream[c]) \in Nat
    BY LenProperties DEF IInv, Typed
  <2>4. n \in Nat /\ n <= Len(stream[c])
    BY <2>3
  <2> DEFINE t == SubSeq(stream[c], 1, n)
  <2>5. Len(t) = n /\ \A i \in 1 .. n : t[i] = stream[c][i]
    BY <2>3, <2>4, Cut
  <2>6. stream' = [stream EXCEPT ![c] = t]
    BY <2>1
  <2> HIDE DEF t
  <2>7. stream'[c] = t /\ \A d \in Clients : d # c => stream'[d] = stream[d]
    BY <2>6 DEF TInv, TypeOK
  <2>8. Line(c)' = Line(c)
    BY <2>2 DEF Line
  <2>9. Prefix(c)'
    <3>1. \A i \in 1 .. n : i \in 1 .. Len(stream[c])
      BY <2>3, <2>4
    <3> QED
      BY <1>1, <2>2, <2>5, <2>7, <2>8, <3>1 DEF DInv, Prefix
  <2>10. Answering(c)'
    BY <1>1, <2>2, <2>8 DEF DInv, Answering
  <2> QED
    BY <1>2, <2>2, <2>7, <2>9, <2>10
<1> QED
  BY <1>3, <1>4, <1>5

(* messageHandler reads: the handler starts with the command of the line. *)
LEMMA DInvRecv ==
    ASSUME IInv, TInv, DInv, NEW c \in Clients, Recv(c)
    PROVE  DInv'
<1>1. ASSUME Prefix(c)', Answering(c)', UNCHANGED <<waiting, inbox, answer, store, log>>,
             \A d \in Clients : d # c => /\ open'[d] = open[d] /\ buffer'[d] = buffer[d]
                                         /\ stream'[d] = stream[d] /\ pc'[d] = pc[d]
                                         /\ cmd'[d] = cmd[d]
      PROVE  DInv'
  <2>1. \A d \in Clients : d # c => Prefix(d)' /\ Answering(d)'
    BY <1>1, DFrame DEF DInv
  <2> QED
    BY <1>1, <2>1 DEF DInv
<1>2. ASSUME NEW n \in 1 .. RecvSize, Received(c, n)
      PROVE  /\ UNCHANGED <<waiting, inbox, answer, store, log>>
             /\ \A d \in Clients : d # c => stream'[d] = stream[d]
             /\ pc[c] = "idle" /\ open[c] /\ waiting[c] # <<>> /\ inbox[c] = <<>>
             /\ Line(c)' = Line(c)
  BY <1>2, TReceived, ReceivedIs DEF Line
<1>3. ASSUME NEW n \in 1 .. RecvSize, RecvTooMuch(c, n)
      PROVE  DInv'
  <2>1. Received(c, n) /\ open' = [open EXCEPT ![c] = FALSE] /\ UNCHANGED <<buffer, pc, cmd>>
    BY <1>3 DEF RecvTooMuch
  <2>2. open'[c] = FALSE /\ \A d \in Clients : d # c => open'[d] = open[d]
    BY <2>1 DEF TInv, TypeOK
  <2>3. Prefix(c)'
    BY <2>2 DEF Prefix
  <2>4. Answering(c)'
    BY <1>2, <2>1 DEF DInv, Answering
  <2> QED
    BY <1>1, <1>2, <2>1, <2>2, <2>3, <2>4
<1>4. ASSUME NEW n \in 1 .. RecvSize, RecvPart(c, n)
      PROVE  DInv'
  <2>1. /\ Received(c, n) /\ buffer' = [buffer EXCEPT ![c] = Collected(c, n)]
        /\ UNCHANGED <<open, pc, cmd>>
    BY <1>4 DEF RecvPart
  <2>2. buffer'[c] = Collected(c, n) /\ \A d \in Clients : d # c => buffer'[d] = buffer[d]
    BY <2>1 DEF TInv, TypeOK
  <2>3. /\ stream[c] \in Seq(Bytes) /\ Len(stream[c]) \in Nat
        /\ buffer[c] \in Seq(Words) /\ Len(buffer[c]) \in Nat
    BY LenProperties DEF IInv, Typed
  <2>4. n \in Nat /\ n <= Len(stream[c])
    BY <2>1, TReceived
  <2>5. Len(buffer'[c]) = Len(buffer[c]) + n
    BY <2>2, <2>3, <2>4, CollectedHas
  <2>6. \A i \in 1 .. Len(buffer'[c]) : buffer'[c][i] = Line(c)[i]
    BY <2>1, <2>2, <2>5, MessageIsLine
  <2>7. /\ Len(stream'[c]) = Len(stream[c]) - n
        /\ \A i \in 1 .. Len(stream[c]) - n : stream'[c][i] = stream[c][n + i]
    <3>1. stream'[c] = SubSeq(stream[c], n + 1, Len(stream[c]))
      BY <2>1 DEF Received, TInv, TypeOK
    <3> QED
      BY <2>3, <2>4, <3>1, Cut
  <2>8. ASSUME NEW i \in 1 .. Len(stream'[c])
        PROVE  stream'[c][i] = Line(c)[Len(buffer'[c]) + i]
    <3>1. n + i \in 1 .. Len(stream[c]) /\ i \in 1 .. Len(stream[c]) - n
      BY <2>3, <2>4, <2>7
    <3>2. stream[c][n + i] = Line(c)[Len(buffer[c]) + (n + i)]
      BY <1>2, <2>1, <3>1 DEF DInv, Prefix
    <3>3. Len(buffer[c]) + (n + i) = (Len(buffer[c]) + n) + i
      <4>1. i \in Nat
        BY <3>1
      <4> QED
        BY <2>3, <2>4, <4>1, Regrouped, Zenon
    <3> QED
      BY <2>5, <2>7, <3>1, <3>2, <3>3
  <2>9. Prefix(c)'
    BY <1>2, <2>1, <2>6, <2>8 DEF Prefix
  <2>10. Answering(c)'
    BY <1>2, <2>1 DEF DInv, Answering
  <2> QED
    BY <1>1, <1>2, <2>1, <2>2, <2>9, <2>10
<1>5. ASSUME NEW n \in 1 .. RecvSize, RecvMessage(c, n)
      PROVE  DInv'
  <2>1. /\ Received(c, n) /\ Contains(Collected(c, n), Newline)
        /\ cmd' = [cmd EXCEPT ![c] = Parse(Collected(c, n))]
        /\ buffer' = [buffer EXCEPT ![c] = <<>>]
        /\ pc' = [pc EXCEPT ![c] = "execute"]
        /\ UNCHANGED open
    BY <1>5 DEF RecvMessage, Complete, LeftOver
  <2>2. Collected(c, n) = Line(c)
    BY <2>1, MessageIsLine
  <2>3. /\ cmd'[c] = Parse(Line(c)) /\ buffer'[c] = <<>> /\ pc'[c] = "execute"
        /\ \A d \in Clients : d # c =>
             cmd'[d] = cmd[d] /\ buffer'[d] = buffer[d] /\ pc'[d] = pc[d]
    BY <2>1, <2>2 DEF TInv, TypeOK
  <2>4. Len(buffer'[c]) = 0 /\ Len(stream'[c]) = 0
    <3>1. n = Len(stream[c])
      BY <2>1, ReceivedIs, CollectedIs DEF IInv, Good
    <3>2. stream'[c] = <<>>
      BY <2>1, <3>1, ReceivedIs
    <3> QED
      BY <2>3, <3>2, EmptySeq
  <2>5. Prefix(c)'
    BY <2>4 DEF Prefix
  <2>6. Answering(c)'
    BY <1>2, <2>1, <2>3 DEF DInv, Answering
  <2> QED
    BY <1>1, <1>2, <2>1, <2>3, <2>5, <2>6
<1>6. CASE RecvEnd(c)
  <2>1. /\ open' = [open EXCEPT ![c] = FALSE]
        /\ UNCHANGED <<waiting, stream, inbox, buffer, pc, cmd, answer, store, log>>
    BY <1>6 DEF RecvEnd, clientVars
  <2>2. open'[c] = FALSE /\ \A d \in Clients : d # c => open'[d] = open[d]
    BY <2>1 DEF TInv, TypeOK
  <2>3. Line(c)' = Line(c)
    BY <2>1 DEF Line
  <2>4. Prefix(c)' /\ Answering(c)'
    BY <2>1, <2>2, <2>3 DEF DInv, Prefix, Answering
  <2> QED
    BY <1>1, <2>1, <2>2, <2>4
<1> QED
  BY <1>3, <1>4, <1>5, <1>6 DEF Recv

(* A value is stored under a word only: an INSERT that has a value has a key. *)
LEMMA ValueHasKey ==
    ASSUME IInv, DInv, NEW c \in Clients, pc[c] # "idle", cmd[c].value # Empty
    PROVE  cmd[c].key # Empty
<1>1. Head(waiting[c]) \in Lines /\ cmd[c] = Parse(Line(c))
  BY WaitsForLine DEF IInv, Good, HandlerAlone, DInv, Answering
<1> DEFINE l == Head(waiting[c])
<1>2. 3 <= Len(l) /\ cmd[c].key = IF 2 <= Len(l) THEN l[2] ELSE Empty
  BY <1>1, ParseLine DEF Line
<1>3. Len(l) \in Nat /\ \A i \in 1 .. Len(l) : l[i] \in Words
  BY <1>1, LineOf
<1> HIDE DEF l
<1>4. 2 <= Len(l) /\ 2 \in 1 .. Len(l)
  BY <1>2, <1>3
<1> QED
  BY <1>2, <1>3, <1>4, ConstantsAssumption

(* messageHandler carries the command out, logs it and answers. *)
LEMMA DInvCommand ==
    ASSUME IInv, TInv, DInv, NEW c \in Clients,
           \/ Insert(c) \/ InsertNothing(c) \/ Get(c) \/ Delete(c) \/ Unknown(c)
           \/ AppendToLog(c) \/ SendAnswer(c)
    PROVE  DInv'
<1>1. ASSUME NEW a, NEW next \in {"log", "send"}, Executed(c, a, next),
             next = "send" => a \notin Writes, store'[Empty] = Empty
      PROVE  DInv'
  <2>1. /\ pc[c] = "execute" /\ answer' = [answer EXCEPT ![c] = a]
        /\ pc' = [pc EXCEPT ![c] = next]
        /\ UNCHANGED <<waiting, stream, inbox, open, buffer, cmd, log>>
    BY <1>1 DEF Executed, clientVars
  <2>2. /\ answer'[c] = a /\ pc'[c] = next
        /\ \A d \in Clients : d # c => answer'[d] = answer[d] /\ pc'[d] = pc[d]
    BY <2>1 DEF TInv, TypeOK
  <2>3. Line(c)' = Line(c)
    BY <2>1 DEF Line
  <2>4. Prefix(c)' /\ Answering(c)'
    BY <1>1, <2>1, <2>2, <2>3 DEF DInv, Prefix, Answering
  <2>5. \A d \in Clients : d # c => Prefix(d)' /\ Answering(d)'
    BY <2>1, <2>2, DFrame DEF DInv
  <2> QED
    BY <1>1, <2>4, <2>5 DEF DInv
<1>2. /\ <<"not found">> \notin Writes /\ <<"empty value">> \notin Writes
      /\ <<"no command">> \notin Writes /\ \A v : <<"found", v>> \notin Writes
  BY DEF Writes
<1>3. store \in [Strings -> Strings] /\ Empty \in Strings /\ store[Empty] = Empty
      /\ cmd[c].key \in Strings
  BY DEF TInv, TypeOK, Commands, Strings, DInv
<1>4. CASE Insert(c)
  <2>1. /\ pc[c] = "execute" /\ cmd[c].value # Empty /\ Executed(c, <<"inserted">>, "log")
        /\ store' = [store EXCEPT ![cmd[c].key] = cmd[c].value]
    BY <1>4 DEF Insert, AfterWrite, Executed
  <2>2. store'[Empty] = Empty
    BY <1>3, <2>1, ValueHasKey
  <2> QED
    BY <1>1, <2>1, <2>2
<1>5. CASE InsertNothing(c)
  BY <1>1, <1>2, <1>3, <1>5 DEF InsertNothing
<1>6. CASE Get(c)
  <2> DEFINE v == store[cmd[c].key]
             a == IF v = Empty THEN <<"not found">> ELSE <<"found", v>>
  <2>1. Executed(c, a, "send") /\ store' = store
    BY <1>6 DEF Get
  <2>2. a \notin Writes
    BY <1>2
  <2> HIDE DEF a
  <2> QED
    BY <1>1, <1>3, <2>1, <2>2
<1>7. CASE Delete(c)
  <2>1. Executed(c, <<"deleted">>, "log") /\ store' = [store EXCEPT ![cmd[c].key] = Empty]
    BY <1>7 DEF Delete, AfterWrite
  <2>2. store'[Empty] = Empty
    BY <1>3, <2>1
  <2> QED
    BY <1>1, <2>1, <2>2
<1>8. CASE Unknown(c)
  BY <1>1, <1>2, <1>3, <1>8 DEF Unknown
<1>9. CASE AppendToLog(c)
  <2>1. /\ pc[c] = "log" /\ log' = Append(log, cmd[c]) /\ pc' = [pc EXCEPT ![c] = "send"]
        /\ UNCHANGED <<waiting, stream, inbox, open, buffer, cmd, answer, store>>
    BY <1>9 DEF AppendToLog, clientVars
  <2>2. pc'[c] = "send" /\ \A d \in Clients : d # c => pc'[d] = pc[d]
    BY <2>1 DEF TInv, TypeOK
  <2>3. Contains(log', cmd[c]) /\ \A x : Contains(log, x) => Contains(log', x)
    <3>1. log \in Seq(Commands) /\ cmd[c] \in Commands
      BY DEF TInv, TypeOK
    <3>2. /\ Append(log, cmd[c]) \in Seq(Commands) /\ Len(Append(log, cmd[c])) = Len(log) + 1
          /\ \A i \in 1 .. Len(log) : Append(log, cmd[c])[i] = log[i]
          /\ Append(log, cmd[c])[Len(log) + 1] = cmd[c]
      BY <3>1, AppendProperties
    <3>3. Len(log) \in Nat /\ DOMAIN log = 1 .. Len(log) /\ DOMAIN log' = 1 .. Len(log) + 1
      BY <2>1, <3>1, <3>2, LenProperties
    <3> QED
      BY <2>1, <3>2, <3>3 DEF Contains
  <2>4. Line(c)' = Line(c)
    BY <2>1 DEF Line
  <2>5. Prefix(c)' /\ Answering(c)'
    BY <2>1, <2>2, <2>3, <2>4 DEF DInv, Prefix, Answering
  <2>6. \A d \in Clients : d # c => Prefix(d)' /\ Answering(d)'
    BY <2>1, <2>2, <2>3, DFrame DEF DInv
  <2> QED
    BY <2>1, <2>5, <2>6 DEF DInv
<1>10. CASE SendAnswer(c)
  <2>1. /\ pc[c] = "send" /\ pc' = [pc EXCEPT ![c] = "idle"]
        /\ inbox' = [inbox EXCEPT ![c] = Append(inbox[c], answer[c])]
        /\ answer' = [answer EXCEPT ![c] = None]
        /\ UNCHANGED <<waiting, stream, open, buffer, cmd, store, log>>
    BY <1>10 DEF SendAnswer
  <2>2. inbox[c] = <<>>
    BY <2>1 DEF IInv, Good, HandlerAlone
  <2>3. /\ pc'[c] = "idle" /\ answer'[c] = None /\ inbox'[c] = Append(<<>>, answer[c])
        /\ \A d \in Clients : d # c =>
             pc'[d] = pc[d] /\ answer'[d] = answer[d] /\ inbox'[d] = inbox[d]
    BY <2>1, <2>2 DEF TInv, TypeOK
  <2>4. Head(inbox'[c]) = answer[c]
    <3>1. <<>> \in Seq({answer[c]})
      BY EmptySeq
    <3> QED
      BY <2>3, <3>1, HeadTailAppend
  <2>5. Line(c)' = Line(c)
    BY <2>1 DEF Line
  <2>6. Prefix(c)'
    BY <2>1, <2>5 DEF DInv, Prefix
  <2>7. Answering(c)'
    <3>1. answer[c] \in Writes => Contains(log, Parse(Line(c)))
      BY <2>1 DEF DInv, Answering
    <3> QED
      BY <2>1, <2>3, <2>4, <2>5, <3>1 DEF Answering
  <2>8. \A d \in Clients : d # c => Prefix(d)' /\ Answering(d)'
    BY <2>1, <2>3, DFrame DEF DInv
  <2> QED
    BY <2>1, <2>6, <2>7, <2>8 DEF DInv
<1> QED
  BY <1>4, <1>5, <1>6, <1>7, <1>8, <1>9, <1>10

(* Every step keeps the invariant. *)
LEMMA DInvStep == Window = 1 /\ IInv /\ TInv /\ DInv /\ [Next]_vars => DInv'
<1> SUFFICES ASSUME Window = 1, IInv, TInv, DInv, [Next]_vars
             PROVE  DInv'
  OBVIOUS
<1>1. CASE UNCHANGED vars
  <2>1. \A c \in Clients : Prefix(c)' /\ Answering(c)'
    BY <1>1, DFrame DEF DInv, vars
  <2> QED
    BY <1>1, <2>1 DEF DInv, vars
<1> QED
  BY <1>1, DInvClient, DInvRecv, DInvCommand DEF Next, Handle

(* appendToLog comes before send: an answer that reports a write means that  *)
(* the command of that very line is in the log, for every client and line.   *)
THEOREM LoggedCorrect ==
    ASSUME Window = 1
    PROVE  Spec => []AnsweredWritesAreLogged
<1>1. DInv => AnsweredWritesAreLogged
  BY DEF DInv, Answering, Writes, Line, AnsweredWritesAreLogged
<1>2. IInv /\ TInv /\ DInv /\ [Next]_vars => IInv' /\ TInv' /\ DInv'
  BY IInvStep, TInvStep, DInvStep
<1>3. Init => IInv /\ TInv /\ DInv
  BY IInvInit, TInvInit, DInvInit
<1> QED
  BY <1>1, <1>2, <1>3, PTL DEF Spec

-----------------------------------------------------------------------------
(* The refinement: the moment of the call on the map is the moment at which  *)
(* KVService carries the line out; no other step of the server shows.        *)

(* What a client sees: the line it waits for and the answer to it. *)
Request(c) == IF waiting[c] = <<>> THEN None ELSE Head(waiting[c])

Result(c) == IF inbox[c] = <<>> THEN answer[c] ELSE Head(inbox[c])

(* At first nobody waits. *)
LEMMA ServiceInit == Init => Service!Init
<1> SUFFICES ASSUME Init
             PROVE  Service!Init
  OBVIOUS
<1>1. \A c \in Clients : waiting[c] = <<>> /\ inbox[c] = <<>> /\ answer[c] = None
  BY DEF Init
<1>2. store = [k \in Words \union {Empty} |-> Empty]
  BY DEF Init, Strings
<1> QED
  BY <1>1, <1>2 DEF Service!Init

(* Steps that no client sees. *)
LEMMA Unseen ==
    ASSUME UNCHANGED store,
           \A d \in Clients : Request(d)' = Request(d) /\ Result(d)' = Result(d)
    PROVE  UNCHANGED Service!vars
<1>1. [c \in Clients |-> Request(c)]' = [c \in Clients |-> Request(c)]
  OBVIOUS
<1>2. [c \in Clients |-> Result(c)]' = [c \in Clients |-> Result(c)]
  OBVIOUS
<1> QED
  BY <1>1, <1>2 DEF Request, Result, Service!vars

(* The command's effect and its answer are those of the line. *)
LEMMA Serves ==
    ASSUME IInv, TInv, DInv, NEW c \in Clients, NEW l, l = Head(waiting[c]),
           Insert(c) \/ InsertNothing(c) \/ Get(c) \/ Delete(c) \/ Unknown(c)
    PROVE  /\ pc[c] = "execute" /\ store' = Service!Effect(l)
           /\ answer' = [answer EXCEPT ![c] = Service!Reply(l)]
           /\ UNCHANGED <<waiting, inbox>>
<1>1. /\ pc[c] = "execute" /\ UNCHANGED <<waiting, inbox>>
  BY DEF Insert, InsertNothing, Get, Delete, Unknown, Executed, clientVars
<1>2. l \in Lines /\ cmd[c] = Parse(Append(l, Newline))
  BY <1>1, WaitsForLine DEF IInv, Good, HandlerAlone, DInv, Answering, Line
<1>3. /\ cmd[c].command = IF 1 <= Len(l) THEN l[1] ELSE Empty
      /\ cmd[c].key = IF 2 <= Len(l) THEN l[2] ELSE Empty
      /\ cmd[c].value = IF cmd[c].command = "INSERT" /\ 3 <= Len(l) THEN l[3] ELSE Empty
  BY <1>2, ParseLine
<1>4. Len(l) \in Nat /\ \A i \in 1 .. Len(l) : l[i] \in Words
  BY <1>2, LineOf
<1>5. l # <<>> <=> 1 <= Len(l)
  <2>1. l \in Seq(Words)
    BY <1>2, LineOf
  <2> QED
    BY <1>4, <2>1, EmptySeq
<1>6. \A w \in {"INSERT", "GET", "DELETE"} : Service!Is(l, w) <=> cmd[c].command = w
  BY <1>3, <1>5, ConstantsAssumption DEF Service!Is
<1>7. Len(l) >= 3 <=> 3 \in 1 .. Len(l)
  BY <1>4
<1>8. Len(l) >= 2 <=> 2 \in 1 .. Len(l)
  BY <1>4
<1>9. store \in [Strings -> Strings] /\ store[Empty] = Empty
  BY DEF TInv, TypeOK, DInv
<1>10. CASE Insert(c)
  <2>1. /\ cmd[c].command = "INSERT" /\ cmd[c].value # Empty
        /\ answer' = [answer EXCEPT ![c] = <<"inserted">>]
        /\ store' = [store EXCEPT ![cmd[c].key] = cmd[c].value]
    BY <1>10 DEF Insert, Executed
  <2>2. Len(l) >= 3 /\ Len(l) >= 2 /\ cmd[c].key = l[2] /\ cmd[c].value = l[3]
    BY <1>3, <1>4, <2>1
  <2>3. Service!Is(l, "INSERT")
    BY <1>6, <2>1
  <2>4. /\ Service!Effect(l) = [store EXCEPT ![l[2]] = l[3]]
        /\ Service!Reply(l) = <<"inserted">>
    BY <1>6, <2>1, <2>2, <2>3 DEF Service!Effect, Service!Reply
  <2> QED
    BY <1>1, <2>1, <2>2, <2>4
<1>11. CASE InsertNothing(c)
  <2>1. /\ cmd[c].command = "INSERT" /\ cmd[c].value = Empty
        /\ answer' = [answer EXCEPT ![c] = <<"empty value">>] /\ store' = store
    BY <1>11 DEF InsertNothing, Executed
  <2>2. ~(Len(l) >= 3)
    BY <1>3, <1>4, <1>7, <2>1, ConstantsAssumption
  <2>3. Service!Is(l, "INSERT") /\ ~Service!Is(l, "DELETE") /\ ~Service!Is(l, "GET")
    BY <1>6, <2>1
  <2>4. Service!Effect(l) = store /\ Service!Reply(l) = <<"empty value">>
    BY <2>2, <2>3 DEF Service!Effect, Service!Reply
  <2> QED
    BY <1>1, <2>1, <2>4
<1>12. CASE Get(c)
  <2> DEFINE v == store[cmd[c].key]
  <2>1. /\ cmd[c].command = "GET" /\ store' = store
        /\ answer' = [answer EXCEPT ![c] = IF v = Empty THEN <<"not found">> ELSE <<"found", v>>]
    BY <1>12 DEF Get, Executed
  <2>2. Service!Is(l, "GET") /\ ~Service!Is(l, "DELETE") /\ ~Service!Is(l, "INSERT")
    BY <1>6, <2>1
  <2>3. /\ Service!Effect(l) = store
        /\ Service!Reply(l) = IF Len(l) >= 2 /\ store[l[2]] # Empty THEN <<"found", store[l[2]]>>
                              ELSE <<"not found">>
    BY <2>2 DEF Service!Effect, Service!Reply
  <2>4. /\ Len(l) >= 2 => v = store[l[2]]
        /\ ~(Len(l) >= 2) => v = Empty
    BY <1>3, <1>4, <1>9
  <2> HIDE DEF v
  <2>5. Service!Reply(l) = IF v = Empty THEN <<"not found">> ELSE <<"found", v>>
    BY <2>3, <2>4
  <2> QED
    BY <1>1, <2>1, <2>3, <2>5
<1>13. CASE Delete(c)
  <2>1. /\ cmd[c].command = "DELETE" /\ answer' = [answer EXCEPT ![c] = <<"deleted">>]
        /\ store' = [store EXCEPT ![cmd[c].key] = Empty]
    BY <1>13 DEF Delete, Executed
  <2>2. Service!Is(l, "DELETE") /\ ~Service!Is(l, "INSERT") /\ ~Service!Is(l, "GET")
    BY <1>6, <2>1
  <2>3. /\ Service!Effect(l) = IF Len(l) >= 2 THEN [store EXCEPT ![l[2]] = Empty] ELSE store
        /\ Service!Reply(l) = <<"deleted">>
    BY <2>2 DEF Service!Effect, Service!Reply
  <2>4. store' = IF Len(l) >= 2 THEN [store EXCEPT ![l[2]] = Empty] ELSE store
    <3>1. CASE Len(l) >= 2
      BY <1>3, <1>4, <2>1, <3>1
    <3>2. CASE ~(Len(l) >= 2)
      <4>1. store' = [store EXCEPT ![Empty] = Empty]
        BY <1>3, <1>4, <2>1, <3>2
      <4> QED
        BY <1>9, <3>2, <4>1
    <3> QED
      BY <3>1, <3>2
  <2> QED
    BY <1>1, <2>1, <2>3, <2>4
<1>14. CASE Unknown(c)
  <2>1. /\ cmd[c].command \notin {"INSERT", "GET", "DELETE"}
        /\ answer' = [answer EXCEPT ![c] = <<"no command">>] /\ store' = store
    BY <1>14 DEF Unknown, Executed
  <2>2. ~Service!Is(l, "INSERT") /\ ~Service!Is(l, "GET") /\ ~Service!Is(l, "DELETE")
    BY <1>6, <2>1
  <2>3. Service!Effect(l) = store /\ Service!Reply(l) = <<"no command">>
    BY <2>2 DEF Service!Effect, Service!Reply
  <2> QED
    BY <1>1, <2>1, <2>3
<1> QED
  BY <1>10, <1>11, <1>12, <1>13, <1>14

(* Every step is one of the service, or none. *)
LEMMA ServiceStep ==
    Window = 1 /\ IInv /\ TInv /\ DInv /\ [Next]_vars => [Service!Next]_(Service!vars)
<1> SUFFICES ASSUME Window = 1, IInv, TInv, DInv, [Next]_vars
             PROVE  [Service!Next]_(Service!vars)
  OBVIOUS
<1>1. ASSUME UNCHANGED <<waiting, inbox, answer, store>>
      PROVE  UNCHANGED Service!vars
  BY <1>1, Unseen DEF Request, Result
<1>2. /\ waiting = [d \in Clients |-> waiting[d]] /\ inbox = [d \in Clients |-> inbox[d]]
      /\ answer \in [Clients -> Answers \union {None}]
  BY DEF TInv, TypeOK
<1>3. ASSUME NEW c \in Clients, NEW l \in Lines, SendLine(c, l)
      PROVE  Service!Next
  <2>1. waiting[c] = <<>> /\ inbox[c] = <<>>
    BY <1>3, NothingUnderWay
  <2>2. /\ waiting' = [waiting EXCEPT ![c] = Append(waiting[c], l)]
        /\ UNCHANGED <<inbox, answer, store>>
    BY <1>3 DEF SendLine
  <2>3. /\ waiting'[c] # <<>> /\ Head(waiting'[c]) = l
        /\ \A d \in Clients : d # c => waiting'[d] = waiting[d]
    BY <1>2, <2>1, <2>2, OneLine
  <2>4. /\ Request(c) = None /\ Request(c)' = l
        /\ \A d \in Clients : /\ d # c => Request(d)' = Request(d)
                              /\ Result(d)' = Result(d)
    BY <2>1, <2>2, <2>3 DEF Request, Result
  <2>5. /\ [d \in Clients |-> Request(d)]' = [[d \in Clients |-> Request(d)] EXCEPT ![c] = l]
        /\ [d \in Clients |-> Result(d)]' = [d \in Clients |-> Result(d)]
    BY <2>4
  <2>6. Service!Call(c, l)
    BY <2>2, <2>4, <2>5 DEF Service!Call, Request, Result
  <2> QED
    BY <2>6 DEF Service!Next
<1>4. ASSUME NEW c \in Clients, ReadAnswer(c)
      PROVE  Service!Next
  <2>1. /\ inbox[c] # <<>>
        /\ inbox' = [inbox EXCEPT ![c] = Tail(inbox[c])]
        /\ waiting' = [waiting EXCEPT ![c] = Tail(waiting[c])]
        /\ UNCHANGED <<answer, store>>
    BY <1>4 DEF ReadAnswer
  <2>2. /\ inbox'[c] = <<>> /\ waiting'[c] = <<>> /\ pc[c] = "idle"
        /\ \A d \in Clients : d # c => inbox'[d] = inbox[d] /\ waiting'[d] = waiting[d]
    BY <1>2, <1>4, <2>1, NothingLeft
  <2>3. answer[c] = None
    BY <2>2 DEF DInv, Answering
  <2>4. Result(c) # None
    <3>1. inbox[c] \in Seq(Answers)
      BY OwedTypes
    <3>2. Head(inbox[c]) \in Answers
      BY <2>1, <3>1, HeadTailProperties
    <3> QED
      BY <2>1, <3>2, NoneIsNoAnswer DEF Result
  <2>5. /\ Request(c)' = None /\ Result(c)' = None
        /\ \A d \in Clients : d # c => Request(d)' = Request(d) /\ Result(d)' = Result(d)
    BY <2>1, <2>2, <2>3 DEF Request, Result
  <2>6. /\ [d \in Clients |-> Request(d)]' = [[d \in Clients |-> Request(d)] EXCEPT ![c] = None]
        /\ [d \in Clients |-> Result(d)]' = [[d \in Clients |-> Result(d)] EXCEPT ![c] = None]
    BY <2>5
  <2>7. Service!Return(c)
    BY <2>1, <2>4, <2>6 DEF Service!Return, Request, Result
  <2> QED
    BY <2>7 DEF Service!Next
<1>5. ASSUME NEW c \in Clients, Leave(c) \/ Recv(c) \/ AppendToLog(c)
      PROVE  UNCHANGED Service!vars
  <2>1. UNCHANGED <<waiting, inbox, answer, store>>
    BY <1>5 DEF Leave, Recv, RecvTooMuch, RecvPart, RecvMessage, Received, RecvEnd, AppendToLog,
                clientVars
  <2> QED
    BY <1>1, <2>1
<1>6. ASSUME NEW c \in Clients,
             Insert(c) \/ InsertNothing(c) \/ Get(c) \/ Delete(c) \/ Unknown(c)
      PROVE  Service!Next
  <2>1. PICK l : l = Head(waiting[c])
    OBVIOUS
  <2>2. /\ pc[c] = "execute" /\ store' = Service!Effect(l)
        /\ answer' = [answer EXCEPT ![c] = Service!Reply(l)]
        /\ UNCHANGED <<waiting, inbox>>
    BY <1>6, <2>1, Serves
  <2>3. PICK a : a = Service!Reply(l)
    OBVIOUS
  <2>4. waiting[c] # <<>> /\ inbox[c] = <<>> /\ answer[c] = None
    BY <2>2 DEF IInv, Good, HandlerAlone, DInv, Answering
  <2>5. l \in Lines /\ Request(c) = l /\ l # None /\ Result(c) = None
    BY <2>1, <2>4, WaitsForLine, NoneIsNoAnswer DEF Request, Result
  <2>6. answer'[c] = a /\ \A d \in Clients : d # c => answer'[d] = answer[d]
    BY <1>2, <2>2, <2>3
  <2>7. /\ Result(c)' = a
        /\ \A d \in Clients : /\ d # c => Result(d)' = Result(d)
                              /\ Request(d)' = Request(d)
    BY <2>2, <2>4, <2>6 DEF Request, Result
  <2>8. /\ [d \in Clients |-> Result(d)]' = [[d \in Clients |-> Result(d)] EXCEPT ![c] = a]
        /\ [d \in Clients |-> Request(d)]' = [d \in Clients |-> Request(d)]
    BY <2>7
  <2>9. [d \in Clients |-> Request(d)][c] = l /\ [d \in Clients |-> Result(d)][c] = None
    BY <2>5
  <2>10. Service!Execute(c)
    BY <2>2, <2>3, <2>5, <2>8, <2>9 DEF Service!Execute, Request, Result
  <2> QED
    BY <2>10 DEF Service!Next
<1>7. ASSUME NEW c \in Clients, SendAnswer(c)
      PROVE  UNCHANGED Service!vars
  <2>1. /\ pc[c] = "send"
        /\ inbox' = [inbox EXCEPT ![c] = Append(inbox[c], answer[c])]
        /\ answer' = [answer EXCEPT ![c] = None]
        /\ UNCHANGED <<waiting, store>>
    BY <1>7 DEF SendAnswer
  <2>2. inbox[c] = <<>>
    BY <2>1 DEF IInv, Good, HandlerAlone
  <2>3. PICK a : a = answer[c]
    OBVIOUS
  <2>4. <<>> \in Seq({a})
    BY EmptySeq
  <2>5. Append(<<>>, a) # <<>> /\ Head(Append(<<>>, a)) = a
    BY <2>4, AppendProperties, HeadTailAppend
  <2>6. /\ inbox'[c] = Append(<<>>, a)
        /\ \A d \in Clients : d # c => inbox'[d] = inbox[d] /\ answer'[d] = answer[d]
    BY <1>2, <2>1, <2>2, <2>3
  <2>7. \A d \in Clients : Request(d)' = Request(d) /\ Result(d)' = Result(d)
    BY <2>1, <2>2, <2>3, <2>5, <2>6 DEF Request, Result
  <2> QED
    BY <2>1, <2>7, Unseen
<1>8. CASE UNCHANGED vars
  BY <1>1, <1>8 DEF vars
<1> QED
  BY <1>3, <1>4, <1>5, <1>6, <1>7, <1>8 DEF Next, Handle

(* The server implements the service: for any clients, lines, limits and     *)
(* sizes of recv, each line of a client that waits for its answers is one    *)
(* command, carried out once and at one moment, with that moment's answer.   *)
THEOREM ServiceCorrect ==
    ASSUME Window = 1
    PROVE  Spec => ImplementsKVService
<1>1. IInv /\ TInv /\ DInv /\ [Next]_vars =>
        IInv' /\ TInv' /\ DInv' /\ [Service!Next]_(Service!vars)
  BY IInvStep, TInvStep, DInvStep, ServiceStep
<1>2. Init => IInv /\ TInv /\ DInv /\ Service!Init
  BY IInvInit, TInvInit, DInvInit, ServiceInit
<1> QED
  BY <1>1, <1>2, PTL DEF Spec, ImplementsKVService, Service!Spec

=============================================================================
