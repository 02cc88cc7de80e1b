----------------------------- MODULE ByteString -----------------------------
(***************************************************************************)
(* What a zbuff promises to a script, call by call, in the terms of the    *)
(* comments above its functions: a string of bytes with an end, up to      *)
(* which the string functions know it and from which the stream writes and *)
(* reads.  No memory is moved here, nothing is done in a loop, and only    *)
(* the call and the bytes there are decide about the bytes afterwards and  *)
(* about the answer; there may be too little memory for a longer string.   *)
(*                                                                         *)
(* Each function of Zbuff is shown to do what its namesake here does with  *)
(* the same arguments.                                                     *)
(***************************************************************************)
EXTENDS Integers, Sequences

CONSTANTS Nil                   \* an argument that is not given

VARIABLES
    bytes,                      \* all bytes there is room for
    end,                        \* how many of them are in use
    reply                       \* what the last call returned: a count and bytes

Within(n, limit) == IF n < limit THEN n ELSE limit

Room == Len(bytes) - end

Answer(n, data) == reply' = [n |-> n, data |-> data]

Refuse == Answer(0, <<>>) /\ UNCHANGED <<bytes, end>>

\* d is written at offset p, as far as there is room, and nothing else changes.
Written(p, d) ==
    /\ Len(bytes') = Len(bytes)
    /\ \A i \in 1 .. Len(bytes) :
          bytes'[i] = IF i \in p + 1 .. p + Len(d) THEN d[i - p] ELSE bytes[i]

\* An argument that may be missing.
Default(arg, value) == IF arg = Nil THEN value ELSE arg

\* An offset: -1 is the last byte in use.
Offset(arg, value) ==
    IF arg # Nil /\ arg < 0 THEN end + arg ELSE Default(arg, value)
-----------------------------------------------------------------------------
(* The stream: from the end on *)

Write(d) ==
    /\ Written(end, d)
    /\ end' = end + Within(Len(d), Room)
    /\ Answer(Within(Len(d), Room), <<>>)

\* A number: its lowest byte is v and the others are 0.
WriteTyped(width, v) ==
    IF width > Room THEN Refuse ELSE Write([k \in 1 .. width |-> IF k = 1 THEN v ELSE 0])

Take(n) ==
    /\ Answer(n, SubSeq(bytes, end + 1, end + n))
    /\ end' = end + n
    /\ UNCHANGED bytes

Read(n) ==
    LET m == IF n < 0 THEN Room ELSE Within(n, Room)
    IN  Take(m) \/ (m > 0 /\ Refuse)

ReadTyped(width) == IF width > Room THEN Refuse ELSE Take(width)

Seek(offset, base) ==
    LET to == CASE base = "set" -> offset
                [] base = "cur" -> end + offset
                [] base = "end" -> Len(bytes) + offset
    IN  /\ end' = IF to < 0 THEN 0 ELSE Within(to, Len(bytes))
        /\ Answer(end', <<>>)
        /\ UNCHANGED bytes

\* The number a field at offset p holds.
Number(field, p) ==
    IF field[2] = 1 THEN bytes[p + 1]
    ELSE IF field[1] = "big" THEN bytes[p + 2] + 256 * bytes[p + 1]
    ELSE bytes[p + 1] + 256 * bytes[p + 2]

\* The leading fields that are there in full; field k begins at places[k].
Unpack(format, places) ==
    \E k \in 0 .. Len(format) :
        /\ places[k + 1] <= Room
        /\ k < Len(format) => places[k + 2] > Room
        /\ reply'.n = places[k + 1]
        /\ Len(reply'.data) = k
        /\ \A j \in 1 .. k : reply'.data[j] = Number(format[j], end + places[j])
        /\ end' = end + places[k + 1]
        /\ UNCHANGED bytes
-----------------------------------------------------------------------------
(* The string: up to the end *)

\* d is written at offset p and may move the end.  Where there is no room for it
\* the bytes behind the end are given up, or there is no memory.
Put(p, d) ==
    LET to == p + Len(d)
        Ends == /\ end' = IF to > end THEN to ELSE end
                /\ Answer(Len(d), <<>>)
    IN  \/ to <= Len(bytes) /\ Written(p, d) /\ Ends
        \/ /\ to > Len(bytes)
           /\ to <= Len(bytes')
           /\ \A i \in 1 .. to : i > p => bytes'[i] = d[i - p]
           /\ \A i \in 1 .. end : i <= p => bytes'[i] = bytes[i]
           /\ Ends
        \/ to > Len(bytes) /\ Refuse

Copy(start, d) ==
    IF Offset(start, end) < 0 THEN Refuse ELSE Put(Offset(start, end), d)

CopySelf == Put(end, SubSeq(bytes, 1, end))

\* The bytes are taken out and what follows them moves up.
Del(start, request) ==
    LET p == Offset(start, 0)
        n == Within(Default(request, end), end - p)
    IN  IF p < 0 \/ p >= end \/ n = 0 THEN Refuse
        ELSE /\ end' = end - n
             /\ Len(bytes') = Len(bytes)
             /\ \A i \in 1 .. end - n :
                   bytes'[i] = IF i <= p THEN bytes[i] ELSE bytes[i + n]
             /\ Answer(0, <<>>)

Query(start, request) ==
    LET p == Within(Offset(start, 0), end)
        n == Within(Default(request, end), end - p)
    IN  IF p < 0 THEN Refuse
        ELSE Answer(n, SubSeq(bytes, p + 1, p + n)) /\ UNCHANGED <<bytes, end>>

\* What is in use is kept as far as there is room.
Resize(n) ==
    \/ /\ Len(bytes') = n
       /\ end' = Within(end, n)
       /\ \A i \in 1 .. Within(end, n) : bytes'[i] = bytes[i]
       /\ Answer(0, <<>>)
    \/ Refuse
-----------------------------------------------------------------------------
(* All bytes *)

Set(start, request, b) ==
    LET p == Default(start, 0)
        n == Within(Default(request, Len(bytes)), Len(bytes) - p)
    IN  /\ Written(p, [i \in 1 .. n |-> b])
        /\ Answer(0, <<>>)
        /\ UNCHANGED end

Index(o) ==
    IF o \in 0 .. Len(bytes) - 1
    THEN Answer(1, <<bytes[o + 1]>>) /\ UNCHANGED <<bytes, end>>
    ELSE Refuse

NewIndex(o, b) ==
    /\ Written(o, <<b>>)
    /\ Answer(0, <<>>)
    /\ UNCHANGED end

ToStr(start, request) ==
    LET p == IF start = Nil THEN 0
             ELSE IF start \in 0 .. Len(bytes) THEN start ELSE Len(bytes)
        n == Within(Default(request, Len(bytes)), Len(bytes) - p)
    IN  Answer(n, SubSeq(bytes, p + 1, p + n)) /\ UNCHANGED <<bytes, end>>
=============================================================================
