---------------------------- MODULE Upload_proofs ----------------------------
(***************************************************************************)
(* Proofs about Upload, for every file, every number of attempts and every *)
(* number of restarts.                                                     *)
(*                                                                         *)
(* The argument: the lines on the way to the device are a piece of what    *)
(* the host sends in order, so each one either comes first or follows the  *)
(* one it was sent after (Follows); and the device is ready for a line     *)
(* (Met) once it has read the line before.                                 *)
(***************************************************************************)
EXTENDS Upload, FiniteSetTheorems, TLAPS

\* Line l was sent directly after line k.
Follows(k, l) ==
    /\ l.what = "line" =>
        k.try = l.try /\ (k.what = "open" \/ (k.what = "line" /\ k.n < l.n))
    /\ l.what = "open" => k.what = "sync"

\* If the device reads l next, no line of another attempt or from behind l has
\* got into the file l is meant for; and an open is read as a new statement.
Met(l) ==
    /\ l.what = "line" =>
        /\ fd \in {0, l.try}
        /\ fd # 0 => \A i \in DOMAIN disk : disk[i][2] < l.n
    /\ l.what = "open" => ~ more

\* The line of write_file the host sends when it is answered.
NextSent(l) ==
    /\ l.try = try
    /\ \/ pc = "sync" /\ l.what = "open"
       \/ pc \in {"open", "line"} /\ l.what = "line" /\ l.n = sent + 1

LineInv ==
    /\ \A i \in 1 .. Len(rx) - 1 : Follows(rx[i], rx[i + 1])
    /\ rx # <<>> => Met(rx[1])
    /\ \A i \in DOMAIN rx : rx[i].what = "line" => rx[i].n \in 1 .. Len(file)

HostInv ==
    /\ pc \in Stages => try \in Tries
    /\ \A l \in Lines : NextSent(l) =>
        IF rx = <<>> THEN Met(l) ELSE Follows(rx[Len(rx)], l)

DiskInv ==
    /\ \A i \in DOMAIN disk : /\ fd # 0 => disk[i][1] = fd
                              /\ i <= disk[i][2] /\ disk[i][2] <= Len(file)
    /\ OneAttempt

UploadInv == UTypeOK /\ LineInv /\ HostInv /\ DiskInv
-----------------------------------------------------------------------------
(* The serial line *)

\* A line is sent behind the one it follows, or to a device that is ready.
LEMMA SendKeepsLines ==
    ASSUME UTypeOK, LineInv, NEW l \in Lines, rx' = Append(rx, l),
           UNCHANGED <<file, fd, disk, more>>,
           IF rx = <<>> THEN Met(l) ELSE Follows(rx[Len(rx)], l),
           l.what = "line" => l.n \in 1 .. Len(file)
    PROVE  LineInv'
<1>1. rx \in Seq(Lines)
  BY DEF UTypeOK
<1>2. Len(rx') = Len(rx) + 1 /\ DOMAIN rx' = 1 .. Len(rx) + 1
      /\ \A i \in DOMAIN rx' : rx'[i] = IF i <= Len(rx) THEN rx[i] ELSE l
  BY <1>1
<1>3. (\A i \in 1 .. Len(rx) - 1 : Follows(rx[i], rx[i + 1]))'
  <2>. SUFFICES ASSUME NEW i \in 1 .. Len(rx) PROVE Follows(rx'[i], rx'[i + 1])
    BY <1>1, <1>2
  <2>1. CASE i < Len(rx)
    BY <1>1, <1>2, <2>1 DEF LineInv
  <2>2. CASE i = Len(rx)
    BY <1>1, <1>2, <2>2
  <2>. QED BY <1>1, <2>1, <2>2
<1>4. (rx # <<>> => Met(rx[1]))'
  <2>1. CASE rx = <<>>
    BY <1>1, <1>2, <2>1 DEF Met
  <2>2. CASE rx # <<>>
    <3>1. rx'[1] = rx[1]
      BY <1>1, <1>2, <2>2
    <3>. QED BY <2>2, <3>1 DEF LineInv, Met
  <2>. QED BY <2>1, <2>2
<1>5. (\A i \in DOMAIN rx : rx[i].what = "line" => rx[i].n \in 1 .. Len(file))'
  BY <1>1, <1>2 DEF LineInv
<1>. QED BY <1>3, <1>4, <1>5 DEF LineInv

\* Nothing is sent and the device does nothing.
LEMMA LinesStay ==
    ASSUME LineInv, UNCHANGED <<file, rx, fd, disk, more>>
    PROVE  LineInv'
BY DEF LineInv, Met, Follows

\* The disk does not change.
LEMMA DiskStays ==
    ASSUME DiskInv, UNCHANGED <<file, fd, disk>>
    PROVE  DiskInv'
BY DEF DiskInv, OneAttempt

\* What the host reads is characters, and what it leaves too.
LEMMA ConsumeType ==
    ASSUME UTypeOK, NEW k \in 0 .. Len(tx), Consume(k)
    PROVE  tx' \in Seq(Chars)
BY DEF UTypeOK, Consume

LEMMA AwaitType ==
    ASSUME UTypeOK, NEW exp, Await(exp)
    PROVE  tx' \in Seq(Chars)
BY ConsumeType DEF Await, UTypeOK

LEMMA ClearType ==
    ASSUME UTypeOK, Clear
    PROVE  tx' \in Seq(Chars)
BY ConsumeType DEF Clear

-----------------------------------------------------------------------------
(* The host *)

\* A step of the host that sends its next line, whatever it has read, keeps the
\* invariant.
LEMMA HostSends ==
    ASSUME UploadInv, NEW l \in Lines, rx' = Append(rx, l), tx' \in Seq(Chars),
           UNCHANGED <<file, deviceVars, failed>>,
           IF rx = <<>> THEN Met(l) ELSE Follows(rx[Len(rx)], l),
           l.what = "line" => l.n \in 1 .. Len(file),
           try' \in Tries, l.try = try', pc' = l.what, sent' = l.n, sent' <= Len(file),
           surplus' \subseteq 0 .. MaxTries
    PROVE  UploadInv'
<1>1. UTypeOK'
  BY DEF UploadInv, UTypeOK, deviceVars, Lines, Tries
<1>2. LineInv'
  BY SendKeepsLines DEF UploadInv, deviceVars
<1>3. HostInv'
  <2>. SUFFICES ASSUME NEW m \in Lines, NextSent(m)'
                PROVE  rx' # <<>> /\ Follows(rx'[Len(rx')], m)
    BY DEF HostInv, Follows
  <2>1. rx' # <<>> /\ rx'[Len(rx')] = l
    BY DEF UploadInv, UTypeOK
  <2>2. Follows(l, m)
    BY DEF NextSent, Follows, UploadInv, UTypeOK
  <2>. QED BY <2>1, <2>2
<1>4. DiskInv'
  BY DiskStays DEF UploadInv, deviceVars
<1>. QED BY <1>1, <1>2, <1>3, <1>4 DEF UploadInv

\* A step of the host that sends nothing ends the attempt.
LEMMA HostEnds ==
    ASSUME UploadInv, tx' \in Seq(Chars), pc' \in {"returned", "raised"},
           UNCHANGED <<file, try, sent, rx, deviceVars, surplus, failed>>
    PROVE  UploadInv'
<1>1. UTypeOK'
  BY DEF UploadInv, UTypeOK, deviceVars
<1>2. LineInv' /\ DiskInv'
  BY LinesStay, DiskStays DEF UploadInv, deviceVars
<1>3. HostInv'
  BY DEF HostInv, NextSent, Stages
<1>. QED BY <1>1, <1>2, <1>3 DEF UploadInv

LEMMA HostKeeps ==
    ASSUME UploadInv, Connect \/ HostStep
    PROVE  UploadInv'
<1>. USE DEF UploadInv
<1>0. /\ try \in 0 .. MaxTries /\ MaxTries \in Nat /\ MaxLines \in Nat
      /\ sent \in 0 .. Len(file) /\ Len(file) \in Nat /\ Len(file) <= MaxLines
      /\ surplus \subseteq 0 .. MaxTries
      /\ pc \in Stages => try \in Tries
  BY UploadAssumption DEF UTypeOK, HostInv
<1>1. CASE Connect
  <2>. DEFINE l == [try |-> try', what |-> "noise", n |-> 0]
  <2>1. l \in Lines /\ rx' = Append(rx, l) /\ l.try \in Tries
    BY <1>0, <1>1 DEF Connect, Send, Lines, Tries, Stages
  <2>2. Met(l) /\ \A k : Follows(k, l)
    BY DEF Met, Follows
  <2>. QED BY <1>0, <1>1, <2>1, <2>2, HostSends, ClearType DEF Connect
<1>2. CASE Semi
  <2>. DEFINE l == [try |-> try, what |-> "semi", n |-> sent]
  <2>1. l \in Lines /\ rx' = Append(rx, l) /\ try \in Tries
    BY <1>0, <1>2 DEF Semi, Send, Lines, Stages
  <2>2. Met(l) /\ \A k : Follows(k, l)
    BY DEF Met, Follows
  <2>. QED BY <1>0, <1>2, <2>1, <2>2, HostSends, ClearType DEF Semi
<1>3. CASE AskSync
  <2>. DEFINE l == [try |-> try, what |-> "sync", n |-> sent]
  <2>0. pc = "semi" /\ UNCHANGED <<file, try, sent, deviceVars, surplus, failed>>
        /\ Send("sync") /\ pc' = "sync"
    BY <1>3 DEF AskSync
  <2>1. l \in Lines /\ rx' = Append(rx, l) /\ try \in Tries
    BY <1>0, <2>0 DEF Send, Lines, Stages
  <2>2. Met(l) /\ \A k : Follows(k, l)
    BY DEF Met, Follows
  <2>3. tx' \in Seq(Chars)
    BY <1>3, AwaitType DEF AskSync
  <2>. QED BY <1>0, <2>0, <2>1, <2>2, <2>3, HostSends
<1>4. CASE Open
  <2>. DEFINE l == [try |-> try, what |-> "open", n |-> sent]
  <2>1. l \in Lines /\ rx' = Append(rx, l) /\ try \in Tries
    BY <1>0, <1>4 DEF Open, Send, Lines, Stages
  <2>2. NextSent(l)
    BY <1>4 DEF Open, NextSent
  <2>3. tx' \in Seq(Chars) /\ surplus' \subseteq 0 .. MaxTries
    BY <1>0, <1>4, ConsumeType DEF Open, UTypeOK
  <2>4. IF rx = <<>> THEN Met(l) ELSE Follows(rx[Len(rx)], l)
    BY <2>1, <2>2 DEF HostInv
  <2>. QED BY <1>0, <1>4, <2>1, <2>3, <2>4, HostSends DEF Open
<1>5. CASE NextLine
  <2>. DEFINE l == [try |-> try, what |-> "line", n |-> sent + 1]
  <2>1. l \in Lines /\ rx' = Append(rx, l) /\ try \in Tries
    BY <1>0, <1>5 DEF NextLine, Send, Lines, Stages
  <2>2. NextSent(l)
    BY <1>5 DEF NextLine, NextSent
  <2>3. IF rx = <<>> THEN Met(l) ELSE Follows(rx[Len(rx)], l)
    BY <2>1, <2>2 DEF HostInv
  <2>4. tx' \in Seq(Chars)
    BY <1>5, AwaitType DEF NextLine
  <2>. QED BY <1>0, <1>5, <2>1, <2>3, <2>4, HostSends DEF NextLine
<1>6. CASE Close
  <2>. DEFINE l == [try |-> try, what |-> "close", n |-> sent]
  <2>1. l \in Lines /\ rx' = Append(rx, l) /\ try \in Tries
    BY <1>0, <1>6 DEF Close, Send, Lines, Stages
  <2>2. Met(l) /\ \A k : Follows(k, l)
    BY DEF Met, Follows
  <2>. QED BY <1>0, <1>6, <2>1, <2>2, HostSends, AwaitType DEF Close
<1>7. CASE Return
  BY <1>7, AwaitType, HostEnds DEF Return
<1>8. CASE Timeout
  BY <1>8, ClearType, HostEnds DEF Timeout
<1>. QED BY <1>1, <1>2, <1>3, <1>4, <1>5, <1>6, <1>7, <1>8 DEF HostStep
-----------------------------------------------------------------------------
(* The device *)

\* What reading a line does to the device's file and to its statement.
LEMMA ReadEffect ==
    ASSUME UploadInv, ReadLine
    PROVE  LET l == rx[1]
           IN /\ l \in Lines
              /\ more' \in BOOLEAN /\ (l.what # "line" => more' = FALSE)
              /\ \/ UNCHANGED disk /\ fd' \in {0, fd}
                 \/ l.what = "open" /\ fd' = l.try /\ disk' = <<>>
                 \/ /\ l.what = "line" /\ fd # 0 /\ fd' = fd
                    /\ disk' = Append(disk, <<l.try, l.n, Literal(l.n)>>)
              /\ l.what = "line" => fd' = fd
              /\ l.what = "open" => fd' \in {0, l.try} /\ (fd' # 0 => disk' = <<>>)
<1>. DEFINE l == rx[1]
<1>1. l \in Lines /\ l = Head(rx) /\ more \in BOOLEAN
  BY DEF UploadInv, UTypeOK, ReadLine
<1>2. l.what = "open" => ~ more
  BY DEF UploadInv, LineInv, Met, ReadLine
<1>3. CASE Statement(l)
  BY <1>1, <1>3 DEF Statement, Execute, OpenFile, OpenFails, Lines, Stages
<1>4. CASE (more \/ (~ Compiles(l) /\ file[l.n] = "refused")) /\ Refuse(l)
  BY <1>1, <1>2, <1>4 DEF Refuse, Compiles
<1>5. CASE ~ more /\ ~ Compiles(l) /\ Continue(l)
  BY <1>1, <1>5 DEF Continue, Compiles
<1>. QED BY <1>1, <1>3, <1>4, <1>5 DEF ReadLine

LEMMA ReadType ==
    ASSUME UploadInv, ReadLine
    PROVE  /\ rx' \in Seq(Lines) /\ tx' \in Seq(Chars)
           /\ surplus' \subseteq 0 .. MaxTries /\ failed' \subseteq Tries
<1>. DEFINE l == Head(rx)
<1>1. l \in Lines /\ l.try \in Tries /\ rx' \in Seq(Lines) /\ Tries \subseteq 0 .. MaxTries
  <2>1. rx \in Seq(Lines) /\ rx # <<>> /\ rx' = Tail(rx)
    BY DEF UploadInv, UTypeOK, ReadLine
  <2>2. l \in Lines /\ rx' \in Seq(Lines)
    BY <2>1
  <2>. QED BY <2>2, UploadAssumption DEF Lines, Tries
<1>2. tx \in Seq(Chars) /\ surplus \subseteq 0 .. MaxTries /\ failed \subseteq Tries
  BY DEF UploadInv, UTypeOK
<1>3. Char(">") \in Chars /\ Char(" ") \in Chars /\ <<"sync", l.try>> \in Chars
  BY <1>1 DEF Chars
<1>4. \A s \in Seq(Chars) : Answer(s) => tx' \in Seq(Chars)
  BY <1>2 DEF Answer
<1>5. \A c, d, e \in Chars : /\ <<c>> \in Seq(Chars) /\ <<c, d>> \in Seq(Chars)
                             /\ <<c, d, e>> \in Seq(Chars) /\ <<>> \in Seq(Chars)
  OBVIOUS
<1>9. Prompt \in Seq(Chars) /\ Prompt2 \in Seq(Chars) /\ <<Char(">")>> \in Seq(Chars)
      /\ <<<<"sync", l.try>>>> \in Seq(Chars) /\ <<>> \in Seq(Chars)
  BY <1>3, <1>5 DEF Prompt, Prompt2
<1>10. \A s, t \in Seq(Chars) : s \o t \in Seq(Chars)
  OBVIOUS
<1>6. CASE Statement(l)
  <2>1. tx' \in Seq(Chars)
    <3>1. Answer(<<<<"sync", l.try>>>> \o Prompt) \/ Answer(Prompt)
      BY <1>6 DEF Statement
    <3>. QED BY <1>4, <1>9, <1>10, <3>1
  <2>2. surplus' = surplus /\ failed' \subseteq Tries
    BY <1>1, <1>2, <1>6 DEF Statement, Execute, Lines, Stages
  <2>. QED BY <1>1, <1>2, <2>1, <2>2
<1>7. CASE Refuse(l)
  <2>1. tx' \in Seq(Chars)
    <3>1. Answer(<<>> \o Prompt) \/ Answer(<<Char(">")>> \o Prompt)
      BY <1>7 DEF Refuse
    <3>. QED BY <1>4, <1>5, <1>9, <1>10, <3>1
  <2>2. surplus' \in {surplus, surplus \cup {l.try}} /\ failed' \in {failed, failed \cup {l.try}}
    BY <1>7 DEF Refuse
  <2>. QED BY <1>1, <1>2, <2>1, <2>2
<1>8. CASE Continue(l)
  BY <1>1, <1>2, <1>4, <1>9, <1>8 DEF Continue
<1>. QED BY <1>6, <1>7, <1>8 DEF ReadLine

\* Once it has read a line the device is ready for the one that follows.
LEMMA ReadMeets ==
    ASSUME UploadInv, ReadLine, NEW m \in Lines, Follows(rx[1], m)
    PROVE  Met(m)'
<1>. DEFINE l == rx[1]
<1>1. /\ l \in Lines /\ Met(l) /\ disk \in Seq(Entries)
  BY ReadEffect DEF UploadInv, LineInv, UTypeOK, ReadLine
<1>2. CASE m.what = "open"
  BY <1>1, <1>2, ReadEffect DEF Follows, Met
<1>3. CASE m.what = "line" /\ l.what = "open"
  <2>1. fd' \in {0, m.try} /\ (fd' # 0 => disk' = <<>>)
    BY <1>3, ReadEffect DEF Follows
  <2>. QED BY <1>3, <2>1 DEF Met
<1>4. CASE m.what = "line" /\ l.what = "line"
  <2>1. l.try = m.try /\ l.n < m.n /\ l.n \in Int /\ m.n \in Int
    BY <1>1, <1>4 DEF Follows, Lines
  <2>2. fd' = fd /\ fd \in {0, m.try}
    BY <1>1, <1>4, <2>1, ReadEffect DEF Met
  <2>3. fd # 0 => \A i \in DOMAIN disk : disk[i][2] < m.n
    <3>. SUFFICES ASSUME fd # 0, NEW i \in DOMAIN disk PROVE disk[i][2] < m.n
      OBVIOUS
    <3>1. disk[i] \in Entries /\ disk[i][2] < l.n
      BY <1>1, <1>4 DEF Met
    <3>. QED BY <2>1, <3>1 DEF Entries
  <2>4. disk' = disk \/ disk' = Append(disk, <<l.try, l.n, Literal(l.n)>>)
    BY <1>4, ReadEffect
  <2>5. fd' # 0 => \A i \in DOMAIN disk' : disk'[i][2] < m.n
    BY <1>1, <2>1, <2>2, <2>3, <2>4
  <2>. QED BY <1>4, <2>2, <2>5 DEF Met
<1>. QED BY <1>2, <1>3, <1>4 DEF Follows, Met

\* A line is written behind those of its own attempt only.
LEMMA ReadKeepsDisk ==
    ASSUME UploadInv, ReadLine
    PROVE  DiskInv' /\ disk' \in Seq(Entries) /\ fd' \in 0 .. MaxTries
<1>. DEFINE l == rx[1]  D == Entries
<1>1. /\ l \in Lines /\ Met(l) /\ disk \in Seq(D) /\ fd \in 0 .. MaxTries
      /\ l.what = "line" => l.n \in 1 .. Len(file)
      /\ Len(file) \in Nat /\ Len(file) <= MaxLines /\ MaxLines \in Nat
      /\ file' = file /\ DiskInv
  BY ReadEffect, UploadAssumption
  DEF UploadInv, LineInv, UTypeOK, ReadLine, hostVars
<1>2. CASE disk' = disk /\ fd' \in {0, fd}
  BY <1>1, <1>2, UploadAssumption DEF DiskInv, OneAttempt
<1>3. CASE l.what = "open" /\ fd' = l.try /\ disk' = <<>>
  BY <1>1, <1>3, UploadAssumption DEF DiskInv, OneAttempt, Lines, Tries
<1>4. CASE l.what = "line" /\ fd # 0 /\ fd' = fd /\ disk' = Append(disk, <<l.try, l.n, Literal(l.n)>>)
  <2>. DEFINE d == <<l.try, l.n, Literal(l.n)>>
  <2>1. d \in D /\ d[1] = fd /\ d[2] = l.n
    BY <1>1, <1>4 DEF Met, Lines, Entries, Literal
  <2>2. disk' \in Seq(D)
    BY <1>1, <1>4, <2>1
  <2>3. DOMAIN disk' = 1 .. Len(disk) + 1 /\ Len(disk) \in Nat
        /\ \A i \in DOMAIN disk' : disk'[i] = IF i <= Len(disk) THEN disk[i] ELSE d
    BY <1>1, <1>4
  <2>4. \A i \in 1 .. Len(disk) :
            /\ disk[i][1] = fd /\ disk[i][2] \in Nat /\ disk[i][2] < l.n
            /\ i <= disk[i][2] /\ disk[i][2] <= Len(file)
    BY <1>1, <1>4 DEF Met, DiskInv, Entries
  <2>5. Len(disk) + 1 <= l.n
    <3>1. CASE Len(disk) = 0
      BY <1>1, <1>4, <3>1
    <3>2. CASE Len(disk) # 0
      <4>1. Len(disk) \in 1 .. Len(disk) /\ l.n \in Nat
        BY <1>1, <1>4, <2>3, <3>2
      <4>2. Len(disk) <= disk[Len(disk)][2] /\ disk[Len(disk)][2] < l.n
            /\ disk[Len(disk)][2] \in Nat
        BY <2>4, <4>1
      <4>. QED BY <2>3, <4>1, <4>2
    <3>. QED BY <2>3, <3>1, <3>2
  <2>6. \A i \in DOMAIN disk' : /\ disk'[i][1] = fd
                               /\ i <= disk'[i][2] /\ disk'[i][2] <= Len(file)
    BY <1>1, <1>4, <2>1, <2>3, <2>4, <2>5
  <2>7. \A i, j \in DOMAIN disk' : i < j => disk'[i][2] < disk'[j][2]
    <3>. SUFFICES ASSUME NEW i \in DOMAIN disk', NEW j \in DOMAIN disk', i < j
                  PROVE  disk'[i][2] < disk'[j][2]
      OBVIOUS
    <3>1. i \in 1 .. Len(disk) /\ disk'[i] = disk[i]
      BY <2>3
    <3>2. CASE j <= Len(disk)
      <4>1. j \in DOMAIN disk /\ i \in DOMAIN disk /\ disk'[j] = disk[j]
        BY <1>1, <2>3, <3>1, <3>2
      <4>. QED BY <1>1, <3>1, <4>1 DEF DiskInv, OneAttempt
    <3>3. CASE ~ (j <= Len(disk))
      <4>1. disk'[j] = d
        BY <2>3, <3>3
      <4>. QED BY <2>1, <2>4, <3>1, <4>1
    <3>. QED BY <3>2, <3>3
  <2>8. DiskInv'
    BY <1>1, <1>4, <2>6, <2>7 DEF DiskInv, OneAttempt
  <2>. QED BY <1>1, <1>4, <2>2, <2>8
<1>. QED BY <1>2, <1>3, <1>4, ReadEffect
LEMMA ReadKeeps ==
    ASSUME UploadInv, ReadLine
    PROVE  UploadInv'
<1>1. /\ rx \in Seq(Lines) /\ rx # <<>> /\ rx' = Tail(rx) /\ LineInv /\ HostInv
      /\ UNCHANGED <<file, pc, try, sent, restarts>>
  BY DEF UploadInv, UTypeOK, ReadLine, hostVars
<1>2. Len(rx') = Len(rx) - 1 /\ DOMAIN rx' = 1 .. Len(rx) - 1 /\ Len(rx) \in Nat \ {0}
      /\ \A i \in DOMAIN rx' : rx'[i] = rx[i + 1]
  BY <1>1
<1>3. UTypeOK'
  <2>1. Len(disk') <= Len(file)
    <3>1. CASE disk' = <<>>
      BY <3>1 DEF UploadInv, UTypeOK
    <3>2. CASE disk' # <<>>
      <4>1. disk' \in Seq(Entries) /\ Len(disk') \in DOMAIN disk'
        BY <3>2, ReadKeepsDisk
      <4>2. disk'[Len(disk')][2] \in Nat /\ Len(file) \in Nat
        BY <4>1, UploadAssumption DEF UploadInv, UTypeOK, Entries
      <4>. QED BY <1>1, <4>1, <4>2, ReadKeepsDisk DEF DiskInv
    <3>. QED BY <3>1, <3>2
  <2>2. more' \in BOOLEAN
    BY ReadEffect
  <2>. QED BY <1>1, <2>1, <2>2, ReadType, ReadKeepsDisk DEF UploadInv, UTypeOK
<1>4. LineInv'
  <2>1. (\A i \in 1 .. Len(rx) - 1 : Follows(rx[i], rx[i + 1]))'
    BY <1>1, <1>2 DEF LineInv, Follows
  <2>2. (rx # <<>> => Met(rx[1]))'
    <3>. SUFFICES ASSUME rx' # <<>> PROVE Met(rx[1])'
      OBVIOUS
    <3>1. 2 \in DOMAIN rx /\ rx'[1] = rx[2] /\ rx[2] \in Lines /\ Follows(rx[1], rx[2])
      BY <1>1, <1>2 DEF LineInv
    <3>2. \A m \in Lines : Follows(rx[1], m) => Met(m)'
      BY ReadMeets
    <3>. QED BY <3>1, <3>2 DEF Met
  <2>3. (\A i \in DOMAIN rx : rx[i].what = "line" => rx[i].n \in 1 .. Len(file))'
    BY <1>1, <1>2 DEF LineInv
  <2>. QED BY <2>1, <2>2, <2>3 DEF LineInv
<1>5. HostInv'
  <2>. SUFFICES ASSUME NEW m \in Lines, NextSent(m)'
                PROVE  IF rx' = <<>> THEN Met(m)' ELSE Follows(rx'[Len(rx')], m)
    BY <1>1 DEF HostInv, Follows
  <2>1. Follows(rx[Len(rx)], m)
    BY <1>1 DEF HostInv, NextSent
  <2>2. CASE rx' = <<>>
    <3>0. Len(rx') = 0
      BY <2>2
    <3>1. Len(rx) = 1
      BY <1>2, <3>0
    <3>. QED BY <2>1, <2>2, <3>1, ReadMeets
  <2>3. CASE rx' # <<>>
    <3>1. rx'[Len(rx')] = rx[Len(rx)]
      BY <1>1, <1>2, <2>3
    <3>. QED BY <2>1, <2>3, <3>1
  <2>. QED BY <2>2, <2>3
<1>. QED BY <1>3, <1>4, <1>5, ReadKeepsDisk DEF UploadInv

LEMMA RestartKeeps ==
    ASSUME UploadInv, Restart
    PROVE  UploadInv'
<1>. DEFINE D == Entries
<1>1. /\ rx' = <<>> /\ more' = FALSE /\ fd' = 0 /\ UNCHANGED <<file, pc, try, sent, failed>>
      /\ restarts' \in 0 .. MaxRestarts /\ MaxRestarts \in Nat /\ disk \in Seq(D)
      /\ Len(disk) <= Len(file) /\ Len(file) \in Nat
  BY UploadAssumption DEF Restart, UploadInv, UTypeOK, hostVars
<1>2. PICK k \in 0 .. Len(disk) : disk' = SubSeq(disk, 1, k)
  BY DEF Restart
<1>3. disk' \in Seq(D) /\ Len(disk') = k /\ DOMAIN disk' = 1 .. k
      /\ k \in Nat /\ Len(disk) \in Nat /\ k <= Len(disk)
      /\ \A i \in DOMAIN disk' : i \in DOMAIN disk /\ disk'[i] = disk[i]
  BY <1>1, <1>2
<1>4. tx' \in Seq(Chars)
  <2>1. Char(">") \in Chars /\ Char(" ") \in Chars
    BY DEF Chars
  <2>2. \A c, d \in Chars : <<c, d>> \in Seq(Chars)
    OBVIOUS
  <2>3. Prompt \in Seq(Chars) /\ tx \in Seq(Chars)
    BY <2>1, <2>2 DEF Prompt, UploadInv, UTypeOK
  <2>. QED BY <2>3 DEF Restart, Answer
<1>5. UTypeOK'
  <2>1. rx' \in Seq(Lines) /\ surplus' \subseteq 0 .. MaxTries /\ fd' \in 0 .. MaxTries
    BY <1>1, UploadAssumption DEF Restart, UploadInv, UTypeOK
  <2>2. Len(disk') <= Len(file)
    BY <1>1, <1>3
  <2>. QED BY <1>1, <1>3, <1>4, <2>1, <2>2 DEF UploadInv, UTypeOK
<1>6. LineInv'
  BY <1>1 DEF LineInv
<1>7. HostInv'
  BY <1>1 DEF UploadInv, HostInv, NextSent, Met
<1>8. DiskInv'
  <2>1. \A i \in DOMAIN disk' : i <= disk'[i][2] /\ disk'[i][2] <= Len(file')
    BY <1>1, <1>3 DEF UploadInv, DiskInv
  <2>2. OneAttempt'
    BY <1>3 DEF UploadInv, DiskInv, OneAttempt
  <2>. QED BY <1>1, <2>1, <2>2 DEF DiskInv
<1>. QED BY <1>5, <1>6, <1>7, <1>8 DEF UploadInv
-----------------------------------------------------------------------------
(* The invariant *)

LEMMA InitInv == Init => UploadInv
<1>. SUFFICES ASSUME Init PROVE UploadInv
  OBVIOUS
<1>1. PICK k \in 0 .. MaxLines : file \in [1 .. k -> Kinds]
  BY DEF Init
<1>2. file \in Seq(Kinds) /\ Len(file) = k /\ k <= MaxLines /\ k \in Nat
  BY <1>1, UploadAssumption
<1>3. UTypeOK
  <2>1. 0 \in 0 .. MaxTries /\ 0 \in 0 .. MaxRestarts /\ 0 \in 0 .. Len(file) /\ 0 <= Len(file)
    BY <1>2, UploadAssumption
  <2>2. \A S : <<>> \in Seq(S)
    OBVIOUS
  <2>3. Len(<<>>) = 0 /\ {} \subseteq Tries /\ {} \subseteq 0 .. MaxTries
    OBVIOUS
  <2>. QED BY <1>2, <2>1, <2>2, <2>3 DEF Init, UTypeOK
<1>4. LineInv /\ DiskInv
  BY DEF Init, LineInv, DiskInv, OneAttempt
<1>5. HostInv
  BY DEF Init, HostInv, NextSent, Stages
<1>. QED BY <1>3, <1>4, <1>5 DEF UploadInv

LEMMA StepInv == UploadInv /\ [Next]_vars => UploadInv'
<1>. SUFFICES ASSUME UploadInv, [Next]_vars PROVE UploadInv'
  OBVIOUS
<1>1. CASE Connect \/ HostStep
  BY <1>1, HostKeeps
<1>2. CASE ReadLine
  BY <1>2, ReadKeeps
<1>3. CASE Restart
  BY <1>3, RestartKeeps
<1>4. CASE UNCHANGED vars
  <2>1. UTypeOK' /\ LineInv' /\ DiskInv'
    BY <1>4, LinesStay, DiskStays DEF UploadInv, vars, hostVars, deviceVars, UTypeOK
  <2>2. HostInv'
    BY <1>4 DEF UploadInv, vars, hostVars, deviceVars, HostInv, NextSent, Met, Follows
  <2>. QED BY <2>1, <2>2 DEF UploadInv
<1>. QED BY <1>1, <1>2, <1>3, <1>4 DEF Next

LEMMA Invariant == Spec => []UploadInv
BY InitInv, StepInv, PTL DEF Spec

\* Every variable keeps its type, and a remote file never gets longer than the
\* local one (UTypeOK).
THEOREM TypeCorrect == Spec => []UTypeOK
<1>1. UploadInv => UTypeOK
  BY DEF UploadInv
<1>. QED BY <1>1, Invariant, PTL

\* What the remote file holds is of one attempt, in order and without
\* repetition, whatever was late, refused or lost in a restart (OneAttempt).
THEOREM NothingMixed == Spec => []OneAttempt
<1>1. UploadInv => OneAttempt
  BY DEF UploadInv, DiskInv
<1>. QED BY <1>1, Invariant, PTL
-----------------------------------------------------------------------------
(* In step: what the host waits for is the answer to its own line.  The     *)
(* argument: the answer to the print of this attempt is the last thing the  *)
(* device writes before the host opens the file (AnsweredLast), so nothing  *)
(* is under way then; and each line after it is answered by one prompt.     *)

IsPrompt(c) == c[1] = ">"

\* The answer to the print of this attempt.
Own == <<"sync", try>>

\* What was sent and answered is of this attempt or of an earlier one.
OfThePast ==
    /\ \A i \in DOMAIN rx : rx[i].try <= try
    /\ \A i \in DOMAIN tx : tx[i][1] = "sync" => tx[i][2] <= try

NotYetAsked ==
    pc \in {"noise", "semi"} =>
        /\ \A i \in DOMAIN rx : ~ (rx[i].what = "sync" /\ rx[i].try = try)
        /\ \A i \in DOMAIN tx : tx[i] # Own

AnsweredLast ==
    pc = "sync" /\ try \notin surplus =>
        /\ \A i \in DOMAIN rx : rx[i].what = "sync" /\ rx[i].try = try => i = Len(rx)
        /\ \A i \in DOMAIN tx : tx[i] = Own => rx = <<>> /\ i + 2 = Len(tx)

\* The device has not read the line of write_file that the host waits for ...
Unread ==
    /\ rx = <<[try |-> try, what |-> pc, n |-> sent]>>
    /\ \A i \in DOMAIN tx : ~ IsPrompt(tx[i])

\* ... or the host has not seen the answer.
Unseen ==
    /\ rx = <<>>
    /\ \E i \in DOMAIN tx :
          /\ IsPrompt(tx[i])
          /\ \A j \in DOMAIN tx : IsPrompt(tx[j]) => j = i

OneUnderWay == pc \in Sending /\ try \notin surplus => Unread \/ Unseen

SyncInv == OfThePast /\ NotYetAsked /\ AnsweredLast /\ OneUnderWay

\* What IsSuffix says of the elements.
LEMMA SuffixElements ==
    ASSUME NEW X, NEW s \in Seq(X), NEW t \in Seq(X), IsSuffix(s, t)
    PROVE  /\ Len(s) <= Len(t)
           /\ \A i \in 1 .. Len(s) : t[Len(t) - Len(s) + i] = s[i]
<1>. DEFINE rs == Reverse(s)  rt == Reverse(t)
<1>1. /\ rs \in Seq(X) /\ Len(rs) = Len(s)
      /\ rt \in Seq(X) /\ Len(rt) = Len(t)
      /\ \A i \in 1 .. Len(s) : rs[i] = s[(Len(s) - i) + 1]
      /\ \A i \in 1 .. Len(t) : rt[i] = t[(Len(t) - i) + 1]
  BY DEF Reverse
<1>2. Len(rs) <= Len(rt) /\ SubSeq(rs, 1, Len(rs)) = SubSeq(rt, 1, Len(rs))
  BY DEF IsSuffix, IsPrefix
<1>. HIDE DEF rs, rt
<1>3. \A i \in 1 .. Len(s) : rs[i] = rt[i]
  <2>. TAKE i \in 1 .. Len(s)
  <2>1. SubSeq(rs, 1, Len(rs))[i] = rs[i] /\ SubSeq(rt, 1, Len(rs))[i] = rt[i]
    BY <1>1, <1>2
  <2>. QED BY <1>2, <2>1
<1>4. ASSUME NEW i \in 1 .. Len(s)
      PROVE  t[Len(t) - Len(s) + i] = s[i]
  <2>. DEFINE j == (Len(s) - i) + 1
  <2>1. j \in 1 .. Len(s) /\ j \in 1 .. Len(t) /\ (Len(s) - j) + 1 = i
        /\ (Len(t) - j) + 1 = Len(t) - Len(s) + i
    BY <1>1, <1>2
  <2>2. rs[j] = s[i] /\ rt[j] = t[Len(t) - Len(s) + i]
    BY <1>1, <2>1
  <2>. QED BY <1>3, <2>1, <2>2
<1>. QED BY <1>1, <1>2, <1>4

\* What a wait can look for.
Marks == {"sync", ">", " "}

LEMMA CharIs ==
    /\ \A c : Char(c)[1] = c /\ Char(c)[2] = 0
    /\ \A a : <<"sync", a>>[1] = "sync" /\ <<"sync", a>>[2] = a
BY DEF Char

LEMMA PromptIsNotSync ==
    Char(">")[1] # "sync" /\ Char(" ")[1] # "sync"
<1>1. ">" # "sync" /\ " " # "sync"
  BY Zenon
<1>2. Char(">")[1] = ">" /\ Char(" ")[1] = " "
  BY CharIs, Zenon
<1>. QED BY <1>1, <1>2, Zenon

LEMMA SyncChar ==
    ASSUME NEW c \in Chars, c[1] = "sync"
    PROVE  \E a \in Tries : c = <<"sync", a>> /\ c[2] = a
<1>1. c # Char(">") /\ c # Char(" ")
  BY PromptIsNotSync
<1>2. PICK a \in Tries : c = <<"sync", a>>
  BY <1>1 DEF Chars
<1>. QED BY <1>2, CharIs

\* What the host has read when it sees the answer it waits for.
LEMMA AnswerEnds ==
    ASSUME UTypeOK, NEW exp \in Seq(Marks), NEW k, Answered(exp, k)
    PROVE  /\ k \in 1 .. Len(tx) /\ Len(exp) <= k
           /\ \A i \in 1 .. Len(exp) : tx[k - Len(exp) + i][1] = exp[i]
<1>. DEFINE read == [i \in 1 .. k |-> tx[i][1]]
<1>0. k \in 1 .. Len(tx) /\ tx \in Seq(Chars) /\ k \in Nat
  BY DEF Answered, UTypeOK
<1>1. IsSuffix(exp, read)
  BY DEF Answered
<1>2. \A c \in Chars : c[1] \in Marks
  BY CharIs DEF Chars, Marks
<1>3. read \in Seq(Marks) /\ Len(read) = k
  <2>1. \A i \in 1 .. k : tx[i] \in Chars
    BY <1>0
  <2>2. \A i \in 1 .. k : tx[i][1] \in Marks
    BY <1>2, <2>1
  <2>. QED BY <1>0, <2>2
<1>. HIDE DEF read
<1>4. /\ Len(exp) <= k
      /\ \A i \in 1 .. Len(exp) : read[k - Len(exp) + i] = exp[i]
  BY <1>1, <1>3, SuffixElements
<1>5. ASSUME NEW i \in 1 .. Len(exp)
      PROVE  tx[k - Len(exp) + i][1] = exp[i]
  <2>1. k - Len(exp) + i \in 1 .. k
    BY <1>0, <1>4
  <2>2. read[k - Len(exp) + i] = tx[k - Len(exp) + i][1]
    BY <2>1 DEF read
  <2>. QED BY <1>4, <2>2
<1>. QED BY <1>0, <1>4, <1>5

LEMMA AwaitsPrompt ==
    ASSUME UTypeOK, Await(<<">">>)
    PROVE  \E k \in 1 .. Len(tx) : IsPrompt(tx[k]) /\ Consume(k)
<1>1. PICK k \in 1 .. Len(tx) : Answered(<<">">>, k) /\ Consume(k)
  BY DEF Await
<1>2. tx[k][1] = ">"
  <2>0. PICK exp : exp = <<">">>
    OBVIOUS
  <2>1. exp \in Seq(Marks) /\ Len(exp) = 1 /\ exp[1] = ">" /\ Answered(exp, k)
    BY <1>1, <2>0 DEF Marks
  <2>2. \A i \in 1 .. Len(exp) : tx[k - Len(exp) + i][1] = exp[i]
    BY <2>1, AnswerEnds
  <2>3. k - 1 + 1 = k
    BY DEF UTypeOK
  <2>. QED BY <2>1, <2>2, <2>3
<1>. QED BY <1>1, <1>2 DEF IsPrompt

\* What is left behind.
LEMMA Consumed ==
    ASSUME UTypeOK, NEW k \in 0 .. Len(tx), Consume(k)
    PROVE  /\ Len(tx') = Len(tx) - k /\ tx' \in Seq(Chars)
           /\ \A i \in DOMAIN tx' : i + k \in DOMAIN tx /\ tx'[i] = tx[i + k]
BY DEF UTypeOK, Consume

LEMMA LeftBehind ==
    ASSUME UTypeOK, Clear \/ (\E exp : Await(exp))
    PROVE  \A i \in DOMAIN tx' : \E j \in DOMAIN tx : tx'[i] = tx[j]
<1>1. PICK k \in 0 .. Len(tx) : Consume(k)
  BY DEF Clear, Await, UTypeOK
<1>. QED BY <1>1, Consumed

LEMMA Appended ==
    ASSUME NEW S, NEW s \in Seq(S), NEW e \in S
    PROVE  /\ Len(Append(s, e)) = Len(s) + 1 /\ DOMAIN Append(s, e) = 1 .. Len(s) + 1
           /\ \A i \in 1 .. Len(s) + 1 : Append(s, e)[i] = IF i <= Len(s) THEN s[i] ELSE e
           /\ s = <<>> => Append(s, e) = <<e>>
<1>1. Len(s) \in Nat /\ Append(s, e) \in Seq(S)
      /\ Len(Append(s, e)) = Len(s) + 1
  OBVIOUS
<1>2. DOMAIN Append(s, e) = 1 .. Len(s) + 1
  BY <1>1
<1>3. \A i \in 1 .. Len(s) + 1 : Append(s, e)[i] = IF i <= Len(s) THEN s[i] ELSE e
  BY <1>1
<1>4. s = <<>> => Append(s, e) = <<e>>
  OBVIOUS
<1>. QED BY <1>1, <1>2, <1>3, <1>4

LEMMA Sent ==
    ASSUME UTypeOK, NEW l, rx' = Append(rx, l)
    PROVE  /\ Len(rx') = Len(rx) + 1 /\ DOMAIN rx' = 1 .. Len(rx) + 1
           /\ \A i \in DOMAIN rx' : rx'[i] = IF i <= Len(rx) THEN rx[i] ELSE l
           /\ rx = <<>> => rx' = <<l>>
<1>1. rx \in Seq(Lines \cup {l}) /\ l \in Lines \cup {l}
  BY DEF UTypeOK
<1>2. /\ Len(rx') = Len(rx) + 1 /\ DOMAIN rx' = 1 .. Len(rx) + 1
      /\ \A i \in 1 .. Len(rx) + 1 : rx'[i] = IF i <= Len(rx) THEN rx[i] ELSE l
      /\ rx = <<>> => rx' = <<l>>
  BY <1>1, Appended
<1>. QED BY <1>2

LEMMA PastKept ==
    ASSUME UploadInv, OfThePast, try' \in {try, try + 1},
           rx' = rx \/ (\E l : rx' = Append(rx, l) /\ l.try = try'),
           \A i \in DOMAIN tx' : \E j \in DOMAIN tx : tx'[i] = tx[j]
    PROVE  OfThePast'
<1>1. try \in Nat /\ rx \in Seq(Lines) /\ tx \in Seq(Chars)
  BY UploadAssumption DEF UploadInv, UTypeOK
<1>2. \A i \in DOMAIN rx : rx[i].try \in Nat
  <2>1. \A l \in Lines : l.try \in Nat
    BY DEF Lines, Tries
  <2>2. \A i \in DOMAIN rx : rx[i] \in Lines
    BY <1>1
  <2>. QED BY <2>1, <2>2
<1>3. \A i \in DOMAIN tx : tx[i][1] = "sync" => tx[i][2] \in Nat
  <2>. SUFFICES ASSUME NEW c \in Chars, c[1] = "sync" PROVE c[2] \in Nat
    BY <1>1
  <2>. QED BY SyncChar DEF Tries
<1>4. \A i \in DOMAIN rx' : rx'[i].try <= try'
  <2>1. CASE rx' = rx
    BY <1>1, <1>2, <2>1 DEF OfThePast
  <2>2. ASSUME NEW l, rx' = Append(rx, l), l.try = try' PROVE \A i \in DOMAIN rx' : rx'[i].try <= try'
    <3>1. /\ DOMAIN rx' = 1 .. Len(rx) + 1 /\ Len(rx) \in Nat /\ DOMAIN rx = 1 .. Len(rx)
          /\ \A i \in DOMAIN rx' : rx'[i] = IF i <= Len(rx) THEN rx[i] ELSE l
      BY <1>1, <2>2, Sent DEF UploadInv
    <3>2. try <= try' /\ try' \in Nat
      BY <1>1
    <3>3. ASSUME NEW i \in DOMAIN rx', i <= Len(rx) PROVE rx'[i].try <= try'
      <4>1. i \in DOMAIN rx /\ rx'[i] = rx[i]
        BY <3>1, <3>3
      <4>2. rx[i].try <= try
        BY <4>1 DEF OfThePast
      <4>. QED BY <1>1, <1>2, <3>2, <4>1, <4>2
    <3>4. ASSUME NEW i \in DOMAIN rx', ~ (i <= Len(rx)) PROVE rx'[i].try <= try'
      <4>1. rx'[i] = l
        BY <3>1, <3>4
      <4>2. l.try <= try'
        BY <2>2, <3>2
      <4>. QED BY <4>1, <4>2
    <3>. QED BY <3>3, <3>4
  <2>. QED BY <2>1, <2>2
<1>5. \A i \in DOMAIN tx' : tx'[i][1] = "sync" => tx'[i][2] <= try'
  <2>. SUFFICES ASSUME NEW j \in DOMAIN tx, tx[j][1] = "sync" PROVE tx[j][2] <= try'
    OBVIOUS
  <2>. QED BY <1>1, <1>3 DEF OfThePast
<1>. QED BY <1>4, <1>5 DEF OfThePast
-----------------------------------------------------------------------------
(* The host's steps keep in step. *)

LEMMA ConnectSync ==
    ASSUME UploadInv, SyncInv, Connect
    PROVE  SyncInv'
<1>1. /\ try' = try + 1 /\ pc' = "noise" /\ try \in Nat
      /\ rx' = Append(rx, [try |-> try', what |-> "noise", n |-> sent'])
  BY UploadAssumption DEF Connect, Send, UploadInv, UTypeOK
<1>2. \A i \in DOMAIN tx' : \E j \in DOMAIN tx : tx'[i] = tx[j]
  BY LeftBehind DEF Connect, UploadInv
<1>3. OfThePast'
  BY <1>1, <1>2, PastKept DEF SyncInv
<1>4. NotYetAsked'
  <2>1. ASSUME NEW i \in DOMAIN rx' PROVE ~ (rx'[i].what = "sync" /\ rx'[i].try = try')
    <3>1. rx'[i] = IF i <= Len(rx) THEN rx[i] ELSE [try |-> try', what |-> "noise", n |-> sent']
      BY <1>1, Sent DEF UploadInv
    <3>2. i <= Len(rx) => i \in DOMAIN rx /\ rx[i] \in Lines
      BY <1>1, Sent DEF UploadInv, UTypeOK
    <3>3. i <= Len(rx) => rx[i].try <= try /\ rx[i].try \in Nat
      BY <3>2 DEF SyncInv, OfThePast, Lines, Tries
    <3>. QED BY <1>1, <3>1, <3>3
  <2>2. ASSUME NEW i \in DOMAIN tx' PROVE tx'[i] # <<"sync", try'>>
    <3>1. PICK j \in DOMAIN tx : tx'[i] = tx[j]
      BY <1>2
    <3>2. tx[j][1] = "sync" => tx[j][2] <= try
      BY DEF SyncInv, OfThePast
    <3>3. tx[j] = <<"sync", try'>> => tx[j][1] = "sync" /\ tx[j][2] = try + 1
      BY <1>1, CharIs
    <3>. QED BY <1>1, <3>1, <3>2, <3>3
  <2>. QED BY <2>1, <2>2 DEF NotYetAsked, Own
<1>. QED BY <1>1, <1>3, <1>4 DEF SyncInv, AnsweredLast, OneUnderWay, Sending

LEMMA SemiSync ==
    ASSUME UploadInv, SyncInv, Semi
    PROVE  SyncInv'
<1>1. /\ try' = try /\ pc = "noise" /\ pc' = "semi"
      /\ rx' = Append(rx, [try |-> try', what |-> "semi", n |-> sent'])
  BY DEF Semi, Send
<1>2. \A i \in DOMAIN tx' : \E j \in DOMAIN tx : tx'[i] = tx[j]
  BY LeftBehind DEF Semi, UploadInv
<1>3. OfThePast'
  BY <1>1, <1>2, PastKept DEF SyncInv
<1>4. NotYetAsked'
  <2>1. ASSUME NEW i \in DOMAIN rx' PROVE ~ (rx'[i].what = "sync" /\ rx'[i].try = try)
    <3>1. rx'[i] = IF i <= Len(rx) THEN rx[i] ELSE [try |-> try', what |-> "semi", n |-> sent']
      BY <1>1, Sent DEF UploadInv
    <3>2. i <= Len(rx) => i \in DOMAIN rx
      BY <1>1, Sent DEF UploadInv, UTypeOK
    <3>. QED BY <1>1, <3>1, <3>2 DEF SyncInv, NotYetAsked
  <2>. QED BY <1>1, <1>2, <2>1 DEF SyncInv, NotYetAsked, Own
<1>. QED BY <1>1, <1>3, <1>4 DEF SyncInv, AnsweredLast, OneUnderWay, Sending

LEMMA AskSyncSync ==
    ASSUME UploadInv, SyncInv, AskSync
    PROVE  SyncInv'
<1>1. /\ try' = try /\ pc = "semi" /\ pc' = "sync"
      /\ rx' = Append(rx, [try |-> try', what |-> "sync", n |-> sent'])
  BY DEF AskSync, Send
<1>2. \A i \in DOMAIN tx' : \E j \in DOMAIN tx : tx'[i] = tx[j]
  BY LeftBehind DEF AskSync, UploadInv
<1>3. OfThePast'
  BY <1>1, <1>2, PastKept DEF SyncInv
<1>4. AnsweredLast'
  <2>1. ASSUME NEW i \in DOMAIN rx', rx'[i].what = "sync" /\ rx'[i].try = try
        PROVE  i = Len(rx')
    <3>1. /\ rx'[i] = IF i <= Len(rx) THEN rx[i] ELSE [try |-> try', what |-> "sync", n |-> sent']
          /\ Len(rx') = Len(rx) + 1 /\ DOMAIN rx' = 1 .. Len(rx) + 1 /\ Len(rx) \in Nat
      BY <1>1, Sent DEF UploadInv, UTypeOK
    <3>2. i <= Len(rx) => i \in DOMAIN rx
      BY <3>1 DEF UploadInv, UTypeOK
    <3>. QED BY <1>1, <2>1, <3>1, <3>2 DEF SyncInv, NotYetAsked
  <2>2. \A i \in DOMAIN tx' : tx'[i] # Own
    BY <1>1, <1>2 DEF SyncInv, NotYetAsked
  <2>. QED BY <1>1, <2>1, <2>2 DEF AnsweredLast, Own
<1>. QED BY <1>1, <1>3, <1>4 DEF SyncInv, NotYetAsked, OneUnderWay, Sending

\* The host opens the file: unless it took a late answer for its own, nothing
\* is under way but the line it sends.
LEMMA OpenSync ==
    ASSUME UploadInv, SyncInv, Open
    PROVE  SyncInv'
<1>1. /\ try' = try /\ pc = "sync" /\ pc' = "open" /\ sent' = sent
      /\ rx' = Append(rx, [try |-> try', what |-> "open", n |-> sent'])
      /\ tx \in Seq(Chars) /\ rx \in Seq(Lines)
  BY DEF Open, Send, UploadInv, UTypeOK
<1>2. PICK k \in 1 .. Len(tx) :
        /\ Answered(SyncAnswer, k)
        /\ Consume(k)
        /\ surplus' = IF \E i \in 1 .. k : tx[i][1] = "sync" /\ tx[i][2] # try
                      THEN surplus \cup {try} ELSE surplus
  BY DEF Open
<1>3. /\ Len(tx') = Len(tx) - k /\ tx' \in Seq(Chars)
      /\ \A i \in DOMAIN tx' : i + k \in DOMAIN tx /\ tx'[i] = tx[i + k]
  BY <1>1, <1>2, Consumed DEF UploadInv
<1>4. OfThePast'
  <2>1. \A i \in DOMAIN tx' : \E j \in DOMAIN tx : tx'[i] = tx[j]
    BY <1>3
  <2>. QED BY <1>1, <2>1, PastKept DEF SyncInv
<1>5. k - 2 \in 1 .. k /\ tx[k - 2][1] = "sync"
  <2>0. PICK exp : exp = SyncAnswer
    OBVIOUS
  <2>1. exp \in Seq(Marks) /\ Len(exp) = 3 /\ exp[1] = "sync"
    <3>1. \A a, b, c \in Marks : /\ <<a, b, c>> \in Seq(Marks) /\ Len(<<a, b, c>>) = 3
                                 /\ <<a, b, c>>[1] = a
      OBVIOUS
    <3>2. "sync" \in Marks /\ ">" \in Marks /\ " " \in Marks
      BY Zenon DEF Marks
    <3>. QED BY <2>0, <3>1, <3>2, Zenon DEF SyncAnswer
  <2>2. /\ Len(exp) <= k
        /\ \A i \in 1 .. Len(exp) : tx[k - Len(exp) + i][1] = exp[i]
    BY <1>2, <2>0, <2>1, AnswerEnds DEF UploadInv
  <2>3. k - Len(exp) + 1 = k - 2 /\ k - 2 \in 1 .. k
    BY <1>1, <2>1, <2>2
  <2>. QED BY <2>1, <2>2, <2>3
<1>6. ASSUME try \notin surplus'
      PROVE  Unread'
  <2>1. try \notin surplus /\ \A i \in 1 .. k : tx[i][1] = "sync" => tx[i][2] = try
    BY <1>2, <1>6
  <2>2. tx[k - 2] = Own
    <3>1. tx[k - 2] \in Chars
      BY <1>1, <1>5
    <3>2. PICK a \in Tries : tx[k - 2] = <<"sync", a>> /\ tx[k - 2][2] = a
      BY <1>5, <3>1, SyncChar
    <3>. QED BY <1>5, <2>1, <3>2 DEF Own
  <2>3. rx = <<>> /\ k = Len(tx)
    BY <1>1, <1>5, <2>1, <2>2 DEF SyncInv, AnsweredLast
  <2>4. DOMAIN tx' = {}
    BY <1>1, <1>3, <2>3
  <2>5. rx' = <<[try |-> try', what |-> "open", n |-> sent']>>
    BY <1>1, <2>3
  <2>. QED BY <1>1, <2>4, <2>5 DEF Unread
<1>. QED BY <1>1, <1>4, <1>6 DEF SyncInv, NotYetAsked, AnsweredLast, OneUnderWay

\* Then each line is sent when the line before is answered by its one prompt.
LEMMA NextSync ==
    ASSUME UploadInv, SyncInv, NextLine \/ Close
    PROVE  SyncInv'
<1>0. /\ try' = try /\ pc \in Sending /\ pc' \in {"line", "close"} /\ surplus' = surplus
      /\ rx' = Append(rx, [try |-> try', what |-> pc', n |-> sent'])
      /\ Await(<<">">>)
  BY DEF NextLine, Close, Send, Sending
<1>1. tx \in Seq(Chars) /\ rx \in Seq(Lines)
  BY DEF UploadInv, UTypeOK
<1>2. PICK k \in 1 .. Len(tx) : IsPrompt(tx[k]) /\ Consume(k)
  BY <1>0, AwaitsPrompt DEF UploadInv
<1>3. /\ Len(tx') = Len(tx) - k /\ tx' \in Seq(Chars)
      /\ \A i \in DOMAIN tx' : i + k \in DOMAIN tx /\ tx'[i] = tx[i + k]
  BY <1>1, <1>2, Consumed DEF UploadInv
<1>4. OfThePast'
  <2>1. \A i \in DOMAIN tx' : \E j \in DOMAIN tx : tx'[i] = tx[j]
    BY <1>3
  <2>. QED BY <1>0, <2>1, PastKept DEF SyncInv
<1>5. ASSUME try \notin surplus
      PROVE  Unread'
  <2>1. k \in DOMAIN tx
    BY <1>1
  <2>2. Unseen
    BY <1>0, <1>2, <1>5, <2>1 DEF SyncInv, OneUnderWay, Unread
  <2>3. \A j \in DOMAIN tx : IsPrompt(tx[j]) => j = k
    BY <1>2, <2>1, <2>2 DEF Unseen
  <2>4. \A i \in DOMAIN tx' : ~ IsPrompt(tx'[i])
    <3>1. \A i \in DOMAIN tx' : i + k # k
      BY <1>3
    <3>. QED BY <1>3, <2>3, <3>1
  <2>5. rx' = <<[try |-> try', what |-> pc', n |-> sent']>>
    BY <1>0, <2>2 DEF Unseen
  <2>. QED BY <2>4, <2>5 DEF Unread, IsPrompt
<1>. QED BY <1>0, <1>4, <1>5 DEF SyncInv, NotYetAsked, AnsweredLast, OneUnderWay

LEMMA EndSync ==
    ASSUME UploadInv, SyncInv, Return \/ Timeout
    PROVE  SyncInv'
<1>1. try' = try /\ rx' = rx /\ pc' \in {"returned", "raised"}
  BY DEF Return, Timeout
<1>2. \A i \in DOMAIN tx' : \E j \in DOMAIN tx : tx'[i] = tx[j]
  BY LeftBehind DEF Return, Timeout, UploadInv
<1>3. OfThePast'
  BY <1>1, <1>2, PastKept DEF SyncInv
<1>. QED BY <1>1, <1>3 DEF SyncInv, NotYetAsked, AnsweredLast, OneUnderWay, Sending
-----------------------------------------------------------------------------
(* The device's steps keep in step. *)

LEMMA Joined ==
    ASSUME NEW S, NEW s \in Seq(S), NEW t \in Seq(S)
    PROVE  /\ s \o t \in Seq(S) /\ Len(s \o t) = Len(s) + Len(t)
           /\ DOMAIN (s \o t) = 1 .. Len(s) + Len(t)
           /\ \A i \in 1 .. Len(s) : (s \o t)[i] = s[i]
           /\ \A i \in 1 .. Len(t) : (s \o t)[Len(s) + i] = t[i]
           /\ \A i \in DOMAIN (s \o t) :
                 i \in DOMAIN s \/ (i - Len(s) \in DOMAIN t /\ i = Len(s) + (i - Len(s)))
OBVIOUS

LEMMA Short ==
    ASSUME NEW S, NEW c \in S, NEW d \in S, NEW e \in S
    PROVE  /\ <<d, e>> \in Seq(S) /\ Len(<<d, e>>) = 2 /\ DOMAIN <<d, e>> = 1 .. 2
           /\ <<d, e>>[1] = d /\ <<d, e>>[2] = e
           /\ <<c, d, e>> \in Seq(S) /\ Len(<<c, d, e>>) = 3
           /\ <<c, d, e>>[1] = c /\ <<c, d, e>>[2] = d /\ <<c, d, e>>[3] = e
           /\ \A i \in DOMAIN <<d, e>> : <<d, e>>[i] \in {d, e}
           /\ \A i \in DOMAIN <<c, d, e>> : <<c, d, e>>[i] \in {c, d, e}
           /\ <<>> \o <<d, e>> = <<d, e>>
           /\ <<c>> \o <<d, e>> = <<c, d, e>>
<1>1. <<c>> \in Seq(S) /\ <<d, e>> \in Seq(S) /\ <<c, d, e>> \in Seq(S)
  OBVIOUS
<1>2. <<>> \o <<d, e>> = <<d, e>>
  OBVIOUS
<1>3. <<c>> \o <<d, e>> = <<c, d, e>>
  <2>. DEFINE j == <<c>> \o <<d, e>>  k == <<c, d, e>>
  <2>1. Len(<<c>>) = 1 /\ Len(<<d, e>>) = 2 /\ <<c>>[1] = c
        /\ <<d, e>>[1] = d /\ <<d, e>>[2] = e
    OBVIOUS
  <2>2. j \in Seq(S) /\ Len(j) = 1 + 2 /\ j[1] = c /\ j[1 + 1] = d /\ j[1 + 2] = e
    BY <1>1, <2>1, Joined
  <2>3. k \in Seq(S) /\ Len(k) = 3 /\ k[1] = c /\ k[2] = d /\ k[3] = e
    BY <1>1
  <2>. HIDE DEF j, k
  <2>4. \A i \in 1 .. 3 : j[i] = k[i]
    BY <2>2, <2>3
  <2>5. j = k
    BY <2>2, <2>3, <2>4
  <2>. QED BY <2>5 DEF j, k
<1>4. \A i \in DOMAIN <<d, e>> : <<d, e>>[i] \in {d, e}
  OBVIOUS
<1>5. \A i \in DOMAIN <<c, d, e>> : <<c, d, e>>[i] \in {c, d, e}
  OBVIOUS
<1>. QED BY <1>1, <1>2, <1>3, <1>4, <1>5

\* A prompt, behind another character or not.
LEMMA PromptIs ==
    ASSUME NEW c \in Chars
    PROVE  /\ Prompt \in Seq(Chars) /\ Len(Prompt) = 2 /\ DOMAIN Prompt = 1 .. 2
           /\ Prompt[1] = Char(">") /\ Prompt[2] = Char(" ")
           /\ \A i \in DOMAIN Prompt : Prompt[i] \in {Char(">"), Char(" ")}
           /\ <<>> \o Prompt = Prompt
           /\ LET a == <<c>> \o Prompt
              IN /\ a \in Seq(Chars) /\ Len(a) = 3
                 /\ a[1] = c /\ a[2] = Char(">") /\ a[3] = Char(" ")
                 /\ \A i \in DOMAIN a : a[i] \in {c, Char(">"), Char(" ")}
<1>1. PICK d \in Chars, e \in Chars : d = Char(">") /\ e = Char(" ")
  BY DEF Chars
<1>2. Prompt = <<d, e>>
  BY <1>1, Zenon DEF Prompt
<1>3. /\ Prompt \in Seq(Chars) /\ Len(Prompt) = 2 /\ DOMAIN Prompt = 1 .. 2
      /\ Prompt[1] = d /\ Prompt[2] = e
      /\ \A i \in DOMAIN Prompt : Prompt[i] \in {d, e}
      /\ <<>> \o Prompt = Prompt
  BY <1>2, Short
<1>4. PICK a : a = <<c>> \o Prompt
  OBVIOUS
<1>5. /\ a \in Seq(Chars) /\ Len(a) = 3
      /\ a[1] = c /\ a[2] = d /\ a[3] = e
      /\ \A i \in DOMAIN a : a[i] \in {c, d, e}
  <2>1. a = <<c, d, e>>
    BY <1>2, <1>4, Short
  <2>. QED BY <2>1, Short
<1>. QED BY <1>1, <1>3, <1>4, <1>5, Zenon

LEMMA Prompt2Is ==
    /\ Prompt2 \in Seq(Chars)
    /\ \A i \in DOMAIN Prompt2 : Prompt2[i] \in {Char(">"), Char(" ")}
<1>1. PICK d \in Chars, e \in Chars : d = Char(">") /\ e = Char(" ")
  BY DEF Chars
<1>2. Prompt2 = <<d, d, e>>
  BY <1>1, Zenon DEF Prompt2
<1>3. Prompt2 \in Seq(Chars) /\ \A i \in DOMAIN Prompt2 : Prompt2[i] \in {d, d, e}
  BY <1>2, Short
<1>. QED BY <1>1, <1>3

\* What the device writes when it has read line l: nothing that answers the
\* print of another attempt, and just a prompt (behind what a print prints)
\* unless the attempt is noted as one that meets a prompt too many.
Reply(l, a) ==
    /\ a \in Seq(Chars)
    /\ \A i \in DOMAIN a : a[i][1] = "sync" => l.what = "sync" /\ a[i] = <<"sync", l.try>>
    /\ l.try \notin surplus' =>
         \/ a = Prompt
         \/ /\ l.what = "sync" /\ Len(a) = 3
            /\ a[1] = <<"sync", l.try>> /\ a[2] = Char(">") /\ a[3] = Char(" ")

LEMMA ReplyIs ==
    ASSUME NEW l, NEW a, Reply(l, a)
    PROVE  /\ a \in Seq(Chars)
           /\ \A i \in DOMAIN a : a[i][1] = "sync" => l.what = "sync" /\ a[i] = <<"sync", l.try>>
BY Zenon DEF Reply

LEMMA PromptReplies ==
    ASSUME NEW l
    PROVE  Reply(l, Prompt)
<1>1. Char(">") \in Chars
  BY DEF Chars
<1>. QED BY <1>1, PromptIs, PromptIsNotSync DEF Reply

LEMMA ReadReply ==
    ASSUME UploadInv, ReadLine
    PROVE  /\ surplus \subseteq surplus'
           /\ \E a : Reply(rx[1], a) /\ tx' = tx \o a
<1>. DEFINE l == Head(rx)
<1>1. l = rx[1] /\ l \in Lines /\ l.try \in Tries
  <2>1. rx \in Seq(Lines) /\ rx # <<>>
    BY DEF UploadInv, UTypeOK, ReadLine
  <2>2. l = rx[1] /\ l \in Lines
    BY <2>1
  <2>. QED BY <2>2 DEF Lines
<1>. HIDE DEF l
<1>2. CASE Statement(l)
  <2>1. surplus' = surplus
    BY <1>2 DEF Statement
  <2>2. CASE l.what # "sync"
    BY <1>1, <1>2, <2>1, <2>2, PromptReplies DEF Statement, Answer
  <2>3. CASE l.what = "sync"
    <3>1. PICK c \in Chars : c = <<"sync", l.try>>
      BY <1>1 DEF Chars
    <3>2. PICK a : a = <<c>> \o Prompt
      OBVIOUS
    <3>3. tx' = tx \o a
      BY <1>2, <2>3, <3>1, <3>2 DEF Statement, Answer
    <3>4. Reply(l, a)
      BY <2>3, <3>1, <3>2, PromptIs, PromptIsNotSync DEF Reply
    <3>. QED BY <1>1, <2>1, <3>3, <3>4
  <2>. QED BY <2>2, <2>3
<1>3. CASE Refuse(l)
  <2>0. PICK c \in Chars : c = Char(">")
    BY DEF Chars
  <2>1. PICK quoted \in {<<>>, <<c>>} :
          /\ Answer(quoted \o Prompt)
          /\ surplus' = IF quoted = <<>> THEN surplus ELSE surplus \cup {l.try}
    BY <1>3, <2>0 DEF Refuse
  <2>2. CASE quoted = <<>>
    BY <1>1, <2>1, <2>2, PromptIs, PromptReplies DEF Answer
  <2>3. CASE quoted = <<c>>
    <3>1. PICK a : a = <<c>> \o Prompt
      OBVIOUS
    <3>2. quoted # <<>>
      BY <2>3
    <3>3. surplus' = surplus \cup {l.try} /\ tx' = tx \o a
      BY <2>1, <2>3, <3>1, <3>2 DEF Answer
    <3>4. Reply(l, a)
      BY <2>0, <3>1, <3>3, PromptIs, PromptIsNotSync DEF Reply
    <3>. QED BY <1>1, <3>3, <3>4
  <2>. QED BY <2>1, <2>2, <2>3
<1>4. CASE Continue(l)
  <2>1. tx' = tx \o Prompt2 /\ surplus' = surplus \cup {l.try}
    BY <1>4 DEF Continue, Answer
  <2>2. Reply(l, Prompt2)
    BY <2>1, Prompt2Is, PromptIsNotSync DEF Reply
  <2>. QED BY <1>1, <2>1, <2>2
<1>. QED BY <1>2, <1>3, <1>4 DEF ReadLine, l

\* The characters of a reply that the host can take for the answer to its print.
LEMMA ReplyAdds ==
    ASSUME tx \in Seq(Chars), NEW l, NEW a, Reply(l, a), tx' = tx \o a
    PROVE  /\ Len(tx') = Len(tx) + Len(a)
           /\ \A i \in DOMAIN tx : i \in DOMAIN tx' /\ tx'[i] = tx[i]
           /\ \A i \in 1 .. Len(a) : tx'[Len(tx) + i] = a[i]
           /\ \A i \in DOMAIN tx' :
                 \/ i \in DOMAIN tx /\ tx'[i] = tx[i]
                 \/ /\ i - Len(tx) \in 1 .. Len(a) /\ tx'[i] = a[i - Len(tx)]
                    /\ tx'[i][1] = "sync" => l.what = "sync" /\ tx'[i] = <<"sync", l.try>>
<1>1. a \in Seq(Chars) /\ Len(a) \in Nat /\ Len(tx) \in Nat
      /\ DOMAIN a = 1 .. Len(a) /\ DOMAIN tx = 1 .. Len(tx)
  BY ReplyIs
<1>2. /\ Len(tx') = Len(tx) + Len(a) /\ DOMAIN tx' = 1 .. Len(tx) + Len(a)
      /\ \A i \in 1 .. Len(tx) : tx'[i] = tx[i]
      /\ \A i \in 1 .. Len(a) : tx'[Len(tx) + i] = a[i]
      /\ \A i \in DOMAIN tx' :
            i \in DOMAIN tx \/ (i - Len(tx) \in DOMAIN a /\ i = Len(tx) + (i - Len(tx)))
  BY <1>1, Joined
<1>3. \A i \in DOMAIN tx : i \in DOMAIN tx'
  BY <1>1, <1>2
<1>4. ASSUME NEW i \in DOMAIN tx', i \notin DOMAIN tx
      PROVE  /\ i - Len(tx) \in 1 .. Len(a) /\ tx'[i] = a[i - Len(tx)]
             /\ tx'[i][1] = "sync" => l.what = "sync" /\ tx'[i] = <<"sync", l.try>>
  <2>1. PICK j \in DOMAIN a : j = i - Len(tx) /\ i = Len(tx) + j
    BY <1>2, <1>4
  <2>2. tx'[i] = a[j]
    BY <1>1, <1>2, <2>1
  <2>3. a[j][1] = "sync" => l.what = "sync" /\ a[j] = <<"sync", l.try>>
    BY <2>1, ReplyIs
  <2>. QED BY <1>1, <2>1, <2>2, <2>3
<1>. QED BY <1>1, <1>2, <1>3, <1>4

LEMMA ReadSync ==
    ASSUME UploadInv, SyncInv, ReadLine
    PROVE  SyncInv'
<1>1. /\ rx \in Seq(Lines) /\ tx \in Seq(Chars) /\ rx # <<>> /\ rx' = Tail(rx)
      /\ UNCHANGED <<pc, try, sent>>
  BY DEF ReadLine, hostVars, UploadInv, UTypeOK
<1>2. PICK l : l = rx[1]
  OBVIOUS
<1>3. /\ 1 \in DOMAIN rx /\ Len(rx) \in Nat
      /\ Len(rx') = Len(rx) - 1
      /\ \A i \in DOMAIN rx' : i + 1 \in DOMAIN rx /\ rx'[i] = rx[i + 1] /\ i \in Nat
      /\ Len(rx) = 1 => rx' = <<>>
      /\ DOMAIN rx = 1 .. Len(rx)
  BY <1>1
<1>4. PICK a : Reply(l, a) /\ tx' = tx \o a
  BY <1>2, ReadReply
<1>40. a \in Seq(Chars) /\ tx' \in Seq(Chars) /\ Len(tx) \in Nat /\ Len(a) \in Nat
       /\ DOMAIN tx' = 1 .. Len(tx')
  <2>1. a \in Seq(Chars)
    BY <1>4, ReplyIs
  <2>2. tx' \in Seq(Chars)
    BY ReadType
  <2>. QED BY <1>1, <2>1, <2>2
<1>5. /\ Len(tx') = Len(tx) + Len(a)
      /\ \A i \in DOMAIN tx : i \in DOMAIN tx' /\ tx'[i] = tx[i]
      /\ \A i \in 1 .. Len(a) : tx'[Len(tx) + i] = a[i]
      /\ \A i \in DOMAIN tx' :
            \/ i \in DOMAIN tx /\ tx'[i] = tx[i]
            \/ /\ i - Len(tx) \in 1 .. Len(a) /\ tx'[i] = a[i - Len(tx)]
               /\ tx'[i][1] = "sync" => l.what = "sync" /\ tx'[i] = <<"sync", l.try>>
  BY <1>1, <1>4, ReplyAdds, Zenon
<1>6. surplus \subseteq surplus'
  BY ReadReply
<1>7. OfThePast'
  <2>1. \A i \in DOMAIN rx' : rx'[i].try <= try
    BY <1>3 DEF SyncInv, OfThePast
  <2>2. l.try <= try
    BY <1>2, <1>3 DEF SyncInv, OfThePast
  <2>3. \A i \in DOMAIN tx' : tx'[i][1] = "sync" => tx'[i][2] <= try
    BY <1>5, <2>2, CharIs DEF SyncInv, OfThePast
  <2>. QED BY <1>1, <2>1, <2>3 DEF OfThePast
<1>8. NotYetAsked'
  <2>1. ASSUME pc \in {"noise", "semi"}
        PROVE  /\ \A i \in DOMAIN rx' : ~ (rx'[i].what = "sync" /\ rx'[i].try = try)
               /\ \A i \in DOMAIN tx' : tx'[i] # Own
    <3>1. \A i \in DOMAIN rx' : ~ (rx'[i].what = "sync" /\ rx'[i].try = try)
      BY <1>3, <2>1 DEF SyncInv, NotYetAsked
    <3>2. ~ (l.what = "sync" /\ l.try = try)
      BY <1>2, <1>3, <2>1 DEF SyncInv, NotYetAsked
    <3>3. ASSUME NEW i \in DOMAIN tx', tx'[i] = Own PROVE FALSE
      <4>1. tx'[i][1] = "sync" /\ tx'[i][2] = try
        BY <3>3, CharIs DEF Own
      <4>2. i \notin DOMAIN tx \/ tx'[i] # tx[i]
        BY <2>1, <3>3 DEF SyncInv, NotYetAsked
      <4>3. l.what = "sync" /\ tx'[i] = <<"sync", l.try>>
        BY <1>5, <4>1, <4>2
      <4>. QED BY <3>2, <4>1, <4>3, CharIs
    <3>. QED BY <3>1, <3>3
  <2>. QED BY <1>1, <2>1 DEF NotYetAsked, Own
<1>9. AnsweredLast'
  <2>1. ASSUME pc = "sync", try \notin surplus'
        PROVE  /\ \A i \in DOMAIN rx' : rx'[i].what = "sync" /\ rx'[i].try = try => i = Len(rx')
               /\ \A i \in DOMAIN tx' : tx'[i] = Own => rx' = <<>> /\ i + 2 = Len(tx')
    <3>1. /\ \A i \in DOMAIN rx : rx[i].what = "sync" /\ rx[i].try = try => i = Len(rx)
          /\ \A i \in DOMAIN tx : tx[i] # Own
      BY <1>1, <1>6, <2>1 DEF SyncInv, AnsweredLast
    <3>2. ASSUME NEW i \in DOMAIN rx', rx'[i].what = "sync" /\ rx'[i].try = try
          PROVE  i = Len(rx')
      <4>1. i + 1 = Len(rx)
        BY <1>3, <3>1, <3>2
      <4>. QED BY <1>3, <4>1
    <3>3. ASSUME NEW i \in DOMAIN tx', tx'[i] = Own
          PROVE  rx' = <<>> /\ i + 2 = Len(tx')
      <4>1. tx'[i][1] = "sync" /\ tx'[i][2] = try
        BY <3>3, CharIs DEF Own
      <4>2. /\ i - Len(tx) \in 1 .. Len(a) /\ tx'[i] = a[i - Len(tx)]
            /\ l.what = "sync" /\ tx'[i] = <<"sync", l.try>>
        BY <1>5, <3>1, <3>3, <4>1
      <4>3. l.try = try
        BY <4>1, <4>2, CharIs
      <4>4. Len(rx) = 1
        BY <1>2, <1>3, <3>1, <4>2, <4>3
      <4>5. CASE a = Prompt
        <5>1. \A j \in 1 .. Len(a) : a[j] \in {Char(">"), Char(" ")}
          <6>1. Char(">") \in Chars
            BY DEF Chars
          <6>. QED BY <4>5, <6>1, PromptIs
        <5>. QED BY <4>1, <4>2, <5>1, PromptIsNotSync
      <4>6. CASE Len(a) = 3 /\ a[2] = Char(">") /\ a[3] = Char(" ")
        <5>1. i - Len(tx) = 1
          <6>1. i - Len(tx) # 2 /\ i - Len(tx) # 3
            BY <4>1, <4>2, <4>6, PromptIsNotSync
          <6>2. i - Len(tx) \in 1 .. 3
            BY <4>2, <4>6
          <6>. QED BY <6>1, <6>2
        <5>2. Len(tx') = Len(tx) + 3
          BY <1>5, <4>6
        <5>3. Len(tx) \in Nat /\ i \in Int
          BY <1>40
        <5>. QED BY <1>3, <4>4, <5>1, <5>2, <5>3
      <4>. QED BY <1>4, <2>1, <4>3, <4>5, <4>6 DEF Reply
    <3>. QED BY <3>2, <3>3
  <2>. QED BY <1>1, <2>1 DEF AnsweredLast, Own
<1>10. OneUnderWay'
  <2>1. ASSUME pc \in Sending, try \notin surplus'
        PROVE  Unseen'
    <3>1. Unread
      BY <1>1, <1>6, <2>1 DEF SyncInv, OneUnderWay, Unseen
    <3>2. /\ Len(rx) = 1 /\ l.try = try /\ l.what # "sync"
      BY <1>2, <2>1, <3>1 DEF Unread, Sending
    <3>3. a = Prompt
      BY <1>4, <2>1, <3>2 DEF Reply
    <3>4. Len(a) = 2 /\ IsPrompt(a[1]) /\ ~ IsPrompt(a[2])
      <4>1. Char(">") \in Chars
        BY DEF Chars
      <4>2. Len(a) = 2 /\ a[1] = Char(">") /\ a[2] = Char(" ")
        BY <3>3, <4>1, PromptIs
      <4>3. a[1][1] = ">" /\ a[2][1] = " "
        BY <4>2, CharIs, Zenon
      <4>4. " " # ">"
        BY Zenon
      <4>. QED BY <4>2, <4>3, <4>4, Zenon DEF IsPrompt
    <3>5. PICK k : k = Len(tx) + 1
      OBVIOUS
    <3>6. k \in DOMAIN tx' /\ IsPrompt(tx'[k])
      <4>1. 1 \in 1 .. Len(a) /\ tx'[k] = a[1]
        BY <1>5, <3>4, <3>5
      <4>2. k \in 1 .. Len(tx') /\ DOMAIN tx' = 1 .. Len(tx')
        <5>. QED BY <1>5, <1>40, <3>4, <3>5
      <4>. QED BY <3>4, <4>1, <4>2
    <3>7. ASSUME NEW j \in DOMAIN tx', IsPrompt(tx'[j])
          PROVE  j = k
      <4>1. ~ (j \in DOMAIN tx /\ tx'[j] = tx[j])
        BY <3>1, <3>7 DEF Unread
      <4>2. j - Len(tx) \in 1 .. 2 /\ tx'[j] = a[j - Len(tx)]
        BY <1>5, <3>4, <4>1
      <4>3. j - Len(tx) # 2
        BY <3>4, <3>7, <4>2
      <4>4. j \in Int /\ Len(tx) \in Nat
        BY <1>40
      <4>. QED BY <3>5, <4>2, <4>3, <4>4
    <3>8. rx' = <<>>
      BY <1>3, <3>2
    <3>. QED BY <3>6, <3>7, <3>8 DEF Unseen, IsPrompt
  <2>. QED BY <1>1, <2>1 DEF OneUnderWay
<1>. QED BY <1>7, <1>8, <1>9, <1>10 DEF SyncInv

LEMMA RestartSync ==
    ASSUME UploadInv, SyncInv, Restart
    PROVE  SyncInv'
<1>1. /\ tx \in Seq(Chars) /\ rx' = <<>> /\ tx' = tx \o Prompt
      /\ UNCHANGED <<pc, try, sent>> /\ try \in surplus'
  BY DEF Restart, hostVars, Answer, UploadInv, UTypeOK
<1>2. PICK l : l = [what |-> "noise"]
  OBVIOUS
<1>3. \A i \in DOMAIN tx' : (i \in DOMAIN tx /\ tx'[i] = tx[i]) \/ tx'[i][1] # "sync"
  <2>1. l.what # "sync"
    BY <1>2
  <2>. QED BY <1>1, <2>1, PromptReplies, ReplyAdds
<1>4. OfThePast'
  BY <1>1, <1>3 DEF SyncInv, OfThePast
<1>5. NotYetAsked'
  <2>1. Own[1] = "sync"
    BY CharIs DEF Own
  <2>2. ASSUME pc \in {"noise", "semi"}, NEW i \in DOMAIN tx', tx'[i] = Own
        PROVE  FALSE
    <3>1. i \in DOMAIN tx /\ tx'[i] = tx[i]
      BY <1>3, <2>1, <2>2
    <3>. QED BY <2>2, <3>1 DEF SyncInv, NotYetAsked
  <2>. QED BY <1>1, <2>2 DEF NotYetAsked, Own
<1>. QED BY <1>1, <1>4, <1>5 DEF SyncInv, AnsweredLast, OneUnderWay

LEMMA InitSync == Init => SyncInv
BY DEF Init, SyncInv, OfThePast, NotYetAsked, AnsweredLast, OneUnderWay, Sending

LEMMA StepSync == UploadInv /\ SyncInv /\ [Next]_vars => SyncInv'
<1>. SUFFICES ASSUME UploadInv, SyncInv, [Next]_vars PROVE SyncInv'
  OBVIOUS
<1>1. CASE Connect
  BY <1>1, ConnectSync
<1>2. CASE HostStep
  BY <1>2, SemiSync, AskSyncSync, OpenSync, NextSync, EndSync DEF HostStep
<1>3. CASE ReadLine
  BY <1>3, ReadSync
<1>4. CASE Restart
  BY <1>4, RestartSync
<1>5. CASE UNCHANGED vars
  BY <1>5 DEF vars, hostVars, SyncInv, OfThePast, NotYetAsked, Own, AnsweredLast,
              OneUnderWay, Unread, Unseen
<1>. QED BY <1>1, <1>2, <1>3, <1>4, <1>5 DEF Next

\* The characters counted by InStep.
LEMMA OneLineOrPrompt == SyncInv => InStep
<1>. SUFFICES ASSUME SyncInv, pc \in Sending, try \notin surplus
              PROVE  Len(rx) + Cardinality({i \in DOMAIN tx : IsPrompt(tx[i])}) = 1
  BY DEF InStep, IsPrompt
<1>. DEFINE prompts == {i \in DOMAIN tx : IsPrompt(tx[i])}
<1>1. CASE Unread
  <2>1. Len(rx) = 1 /\ prompts = {}
    BY <1>1 DEF Unread
  <2>. QED BY <2>1, FS_EmptySet
<1>2. CASE Unseen
  <2>1. PICK i \in DOMAIN tx : prompts = {i}
    BY <1>2 DEF Unseen
  <2>2. Cardinality(prompts) = 1
    BY <2>1, FS_Singleton
  <2>3. Len(rx) = 0
    BY <1>2 DEF Unseen
  <2>. QED BY <2>2, <2>3
<1>. QED BY <1>1, <1>2 DEF SyncInv, OneUnderWay

LEMMA SyncInvariant == Spec => []SyncInv
BY InitSync, StepSync, Invariant, PTL DEF Spec

\* While a file is sent one line is unread or one prompt unseen: the host that
\* waits for any prompt waits for the answer to its own line, whatever earlier
\* attempts left on the line (InStep).
THEOREM HostInStep == Spec => []InStep
BY SyncInvariant, OneLineOrPrompt, PTL
-----------------------------------------------------------------------------
(* The copy: in step, the host knows what the device has done with its      *)
(* lines without reading an answer.                                         *)

Holds(k) == disk = [n \in 1 .. k |-> <<try, n, Literal(n)>>]

\* The first k lines are in the file, if it could be opened.
Written(k) == fd \in {0, try} /\ (fd # 0 => Holds(k))

\* A line that is not read yet is not written, one that is answered is.
CopyInv ==
    try \notin surplus \cup failed =>
        /\ pc \in {"open", "line"} /\ rx = <<>> => Written(sent)
        /\ pc = "line" /\ rx # <<>> => Written(sent - 1)
        /\ pc = "close" /\ rx # <<>> => Written(Len(file))
        /\ pc = "close" /\ rx = <<>> => fd = 0 /\ Holds(Len(file))
        /\ pc = "returned" => rx = <<>> /\ fd = 0 /\ Holds(Len(file))

\* How far the host is.
SentInv ==
    /\ pc \in {"noise", "semi", "sync", "open"} => sent = 0
    /\ pc = "line" => sent > 0
    /\ pc = "close" => sent = Len(file)

LEMMA InitSent == Init => SentInv /\ CopyInv
BY DEF Init, SentInv, CopyInv

LEMMA StepSent == UploadInv /\ SentInv /\ [Next]_vars => SentInv'
<1>. SUFFICES ASSUME UploadInv, SentInv, [Next]_vars PROVE SentInv'
  OBVIOUS
<1>1. sent \in Nat
  BY DEF UploadInv, UTypeOK
<1>2. CASE Connect \/ HostStep
  <2>1. CASE Connect \/ Semi \/ AskSync
    BY <2>1 DEF SentInv, Connect, Semi, AskSync
  <2>2. CASE Open
    <3>1. pc = "sync" /\ pc' = "open" /\ sent' = sent
      BY <2>2 DEF Open
    <3>. QED BY <3>1 DEF SentInv
  <2>3. CASE NextLine
    <3>1. pc' = "line" /\ sent' = sent + 1
      BY <2>3 DEF NextLine
    <3>. QED BY <1>1, <3>1 DEF SentInv
  <2>4. CASE Close
    <3>1. pc' = "close" /\ sent' = sent /\ sent = Len(file) /\ file' = file
      BY <2>4 DEF Close
    <3>. QED BY <3>1 DEF SentInv
  <2>5. CASE Return \/ Timeout
    BY <2>5 DEF SentInv, Return, Timeout
  <2>. QED BY <1>2, <2>1, <2>2, <2>3, <2>4, <2>5 DEF HostStep
<1>3. CASE ReadLine \/ Restart \/ UNCHANGED vars
  BY <1>3 DEF SentInv, ReadLine, Restart, vars, hostVars
<1>. QED BY <1>2, <1>3 DEF Next

\* The host in step that sees a prompt has no line under way.
LEMMA PromptSeen ==
    ASSUME UploadInv, SyncInv, pc \in Sending, try \notin surplus, Await(<<">">>)
    PROVE  rx = <<>>
<1>1. \E k \in 1 .. Len(tx) : IsPrompt(tx[k])
  BY AwaitsPrompt DEF UploadInv
<1>2. DOMAIN tx = 1 .. Len(tx)
  BY DEF UploadInv, UTypeOK
<1>. QED BY <1>1, <1>2 DEF SyncInv, OneUnderWay, Unread, Unseen

\* The device reads the line the host is in step with.
LEMMA ReadCopies ==
    ASSUME UploadInv, SyncInv, SentInv, CopyInv, ReadLine
    PROVE  CopyInv'
<1>1. /\ UNCHANGED <<file, pc, try, sent>> /\ rx # <<>> /\ rx' = Tail(rx)
      /\ rx \in Seq(Lines) /\ surplus \subseteq surplus'
      /\ try \in Nat /\ sent \in Nat /\ disk \in Seq(Entries)
      /\ Len(file) \in Nat
  BY ReadReply DEF ReadLine, hostVars, UploadInv, UTypeOK
<1>2. failed \subseteq failed'
  BY DEF ReadLine, Statement, Refuse, Continue, Execute
<1>. SUFFICES ASSUME try \notin surplus' \cup failed', pc \in Sending \cup {"returned"}
              PROVE  /\ pc \in Sending /\ rx' = <<>>
                     /\ pc \in {"open", "line"} => Written(sent)'
                     /\ pc = "close" => fd' = 0 /\ Holds(Len(file))'
  BY <1>1 DEF CopyInv, Sending
<1>3. try \notin surplus \cup failed
  BY <1>1, <1>2
<1>4. pc \in Sending /\ rx = <<[try |-> try, what |-> pc, n |-> sent]>>
  BY <1>1, <1>3 DEF CopyInv, SyncInv, OneUnderWay, Unread, Unseen
<1>. DEFINE l == Head(rx)
<1>5. rx' = <<>> /\ l.try = try /\ l.what = pc /\ l.n = sent
  BY <1>1, <1>4
<1>6. Statement(l)
  BY <1>4, <1>5 DEF ReadLine, Refuse, Continue
<1>. HIDE DEF l
<1>7. Execute(l)
  BY <1>6 DEF Statement
<1>8. CASE pc = "open"
  <2>1. sent = 0 /\ ((fd' = try /\ disk' = <<>>) \/ fd' = 0)
    BY <1>5, <1>7, <1>8 DEF Execute, OpenFile, OpenFails, SentInv
  <2>2. <<>> = [n \in 1 .. 0 |-> <<try, n, Literal(n)>>]
    OBVIOUS
  <2>. QED BY <1>1, <1>5, <1>8, <2>1, <2>2 DEF Written, Holds, Literal, Sending
<1>9. CASE pc = "line"
  <2>1. fd # 0 /\ fd' = fd /\ disk' = Append(disk, <<try, sent, Literal(sent)>>)
    BY <1>5, <1>7, <1>9 DEF Execute
  <2>2. fd = try /\ Holds(sent - 1) /\ sent > 0
    BY <1>1, <1>3, <1>9, <2>1 DEF CopyInv, Written, SentInv
  <2>3. disk' = [n \in 1 .. sent |-> <<try, n, Literal(n)>>]
    BY <1>1, <2>1, <2>2 DEF Holds
  <2>. QED BY <1>1, <1>5, <1>9, <2>1, <2>2, <2>3 DEF Written, Holds, Literal, Sending
<1>10. CASE pc = "close"
  <2>1. fd # 0 /\ fd' = 0 /\ disk' = disk
    BY <1>5, <1>7, <1>10 DEF Execute
  <2>2. Holds(Len(file))
    BY <1>1, <1>3, <1>10, <2>1 DEF CopyInv, Written
  <2>. QED BY <1>1, <1>5, <1>10, <2>1, <2>2 DEF Holds, Literal, Sending
<1>. QED BY <1>4, <1>8, <1>9, <1>10 DEF Sending

LEMMA StepCopy ==
    UploadInv /\ SyncInv /\ SentInv /\ CopyInv /\ [Next]_vars => CopyInv'
<1>. SUFFICES ASSUME UploadInv, SyncInv, SentInv, CopyInv, [Next]_vars PROVE CopyInv'
  OBVIOUS
<1>1. rx \in Seq(Lines) /\ sent \in Nat
  BY DEF UploadInv, UTypeOK
<1>2. ASSUME NEW l PROVE Append(rx, l) # <<>>
  <2>1. rx \in Seq(Lines \cup {l}) /\ l \in Lines \cup {l}
    BY <1>1
  <2>. QED BY <2>1
<1>3. CASE Connect \/ Semi \/ AskSync
  BY <1>3 DEF Connect, Semi, AskSync, CopyInv
<1>4. CASE Open
  BY <1>2, <1>4 DEF Open, Send, CopyInv
<1>5. CASE NextLine
  <2>1. /\ pc \in {"open", "line"} /\ pc' = "line" /\ sent' = sent + 1 /\ rx' # <<>>
        /\ UNCHANGED <<file, try, fd, disk, surplus, failed>>
    BY <1>2, <1>5 DEF NextLine, Send, deviceVars
  <2>2. try \notin surplus \cup failed => rx = <<>>
    BY <1>5, <2>1, PromptSeen DEF NextLine, Sending
  <2>3. sent' - 1 = sent
    BY <1>1, <2>1
  <2>. QED BY <2>1, <2>2, <2>3 DEF CopyInv, Written, Holds, Literal
<1>6. CASE Close
  <2>1. /\ pc \in {"open", "line"} /\ pc' = "close" /\ sent = Len(file) /\ rx' # <<>>
        /\ UNCHANGED <<file, try, sent, fd, disk, surplus, failed>>
    BY <1>2, <1>6 DEF Close, Send, deviceVars
  <2>2. try \notin surplus \cup failed => rx = <<>>
    BY <1>6, <2>1, PromptSeen DEF Close, Sending
  <2>. QED BY <2>1, <2>2 DEF CopyInv, Written, Holds, Literal
<1>7. CASE Return
  <2>1. /\ pc = "close" /\ pc' = "returned" /\ rx' = rx
        /\ UNCHANGED <<file, try, fd, disk, surplus, failed>>
    BY <1>7 DEF Return, deviceVars
  <2>2. try \notin surplus \cup failed => rx = <<>>
    BY <1>7, <2>1, PromptSeen DEF Return, Sending
  <2>. QED BY <2>1, <2>2 DEF CopyInv, Holds, Literal
<1>8. CASE Timeout
  BY <1>8 DEF Timeout, CopyInv
<1>9. CASE ReadLine
  BY <1>9, ReadCopies
<1>10. CASE Restart
  BY <1>10 DEF Restart, hostVars, CopyInv
<1>11. CASE UNCHANGED vars
  BY <1>11 DEF vars, hostVars, deviceVars, CopyInv, Written, Holds, Literal
<1>. QED BY <1>3, <1>4, <1>5, <1>6, <1>7, <1>8, <1>9, <1>10, <1>11 DEF Next, HostStep

\* When write_file returns and nothing failed on the device, the remote file has
\* every line of the local one, in order and once, those that stand for themselves
\* between quotes as they were, and is closed, although the host reads no answer
\* (Intact).
THEOREM CopyIntact == Spec => []Intact
<1>1. Spec => [](UploadInv /\ SentInv /\ CopyInv)
  BY InitSent, StepSent, StepCopy, Invariant, SyncInvariant, PTL DEF Spec
<1>2. UploadInv /\ CopyInv => Intact
  <2>. SUFFICES ASSUME UploadInv, CopyInv, pc = "returned", try \notin surplus \cup failed
                PROVE  /\ fd = 0 /\ Len(disk) = Len(file)
                       /\ \A n \in 1 .. Len(file) :
                             /\ disk[n][1] = try /\ disk[n][2] = n
                             /\ file[n] = "plain" => disk[n][3] = "same"
    BY DEF Intact
  <2>1. fd = 0 /\ disk = [n \in 1 .. Len(file) |-> <<try, n, Literal(n)>>]
    BY DEF CopyInv, Holds
  <2>2. Len(file) \in Nat
    BY DEF UploadInv, UTypeOK
  <2>3. Len(disk) = Len(file)
    BY <2>1, <2>2
  <2>. QED BY <2>1, <2>3 DEF Literal
<1>. QED BY <1>1, <1>2, PTL
=============================================================================
