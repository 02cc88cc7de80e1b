-------------------------------- MODULE Upload -------------------------------
(***************************************************************************)
(* The upload of a file: nodemcu-uploader (tools/nodemcu-uploader,         *)
(* uploader.py) writes Lua lines to a serial port, and the read-execute    *)
(* loop of the device (lua_main.c, uart_handler.c) answers each one with a *)
(* prompt.                                                                 *)
(*                                                                         *)
(* The host connects, gets in step with the device, opens the file, writes *)
(* its lines and closes it; it waits for a prompt after each and looks at  *)
(* nothing else.  A wait ends with a timeout when the device is slow: what *)
(* the host has sent and the device has not answered stays on the line for *)
(* the next attempt.  The device may restart.                              *)
(*                                                                         *)
(* The serial line keeps order and loses nothing.  An answer is reduced to *)
(* the characters a wait looks for.  A line of the file is sent between    *)
(* quotes, and its kind is what Lua makes of it there: the same text       *)
(* (plain), another text (altered: it has an escape, or quotes that part   *)
(* it into several strings), an error (refused: a quote, an escape that is *)
(* none) or the beginning of a statement (unfinished: a backslash or a     *)
(* quote at its end).  Lines whose quotes make them a statement of their   *)
(* own, and the newline that a last line without one gets, are left out.   *)
(* A write of the SDK reaches the file at once; a restart may lose the end *)
(* of it.                                                                  *)
(***************************************************************************)
EXTENDS Integers, Sequences, FiniteSets, SequencesExt

CONSTANTS
    Kinds,          \* kinds of lines: among plain, altered, refused and unfinished
    MaxLines,       \* bound of the number of lines of a file
    MaxTries,       \* bound of the number of attempts
    MaxRestarts     \* bound of the number of restarts

ASSUME UploadAssumption ==
    /\ Kinds \subseteq {"plain", "altered", "refused", "unfinished"}
    /\ MaxLines \in Nat
    /\ MaxTries \in Nat
    /\ MaxRestarts \in Nat

Tries == 1 .. MaxTries
Stages == {"noise", "semi", "sync", "open", "line", "close"}
Sending == {"open", "line", "close"}        \* the stages of write_file

VARIABLES
    file,           \* the lines of the local file
    pc,             \* the line of the host that is to be answered, or: off,
                    \* returned, raised
    try,            \* number of the attempt
    sent,           \* lines of the file sent in it
    rx,             \* lines the device has not read
    tx,             \* what the device wrote and the host has not read
    more,           \* the device asks for the rest of a statement
    fd,             \* the attempt whose file the global fd is, 0: no open file
    disk,           \* the lines of the remote file: attempt, number, and whether the
                    \* text is the same as in the local file or another one
    restarts,       \* restarts so far
    surplus,        \* attempts that met a prompt which answers no line of theirs
    failed          \* attempts a line of whose file failed on the device

hostVars == <<file, pc, try, sent>>
deviceVars == <<more, fd, disk, restarts>>
vars == <<hostVars, rx, tx, deviceVars, surplus, failed>>

\* The remote file does not exist.
Init ==
    /\ file \in UNION {[1 .. k -> Kinds] : k \in 0 .. MaxLines}
    /\ pc = "off"
    /\ try = 0
    /\ sent = 0
    /\ rx = <<>> /\ tx = <<>>
    /\ more = FALSE
    /\ fd = 0
    /\ disk = <<>>
    /\ restarts = 0
    /\ surplus = {} /\ failed = {}
-----------------------------------------------------------------------------
(* The serial port: uploader.py, __clear_buffers, __writeln, __expect *)

Char(c) == <<c, 0>>
Prompt == <<Char(">"), Char(" ")>>                  \* LUA_PROMPT
Prompt2 == <<Char(">"), Char(">"), Char(" ")>>      \* LUA_PROMPT2

\* The host reads up to the first k after which what it has read ends with exp.
Answered(exp, k) ==
    LET Read(n) == [i \in 1 .. n |-> tx[i][1]]
    IN /\ k \in 1 .. Len(tx)
       /\ IsSuffix(exp, Read(k))
       /\ \A n \in 1 .. k - 1 : ~ IsSuffix(exp, Read(n))

Consume(k) == tx' = SubSeq(tx, k + 1, Len(tx))

\* What has arrived is dropped, the rest is still under way.
Clear == \E k \in 0 .. Len(tx) : Consume(k)

Await(exp) == \E k \in 1 .. Len(tx) : Answered(exp, k) /\ Consume(k)

Send(what) == rx' = Append(rx, [try |-> try', what |-> what, n |-> sent'])
-----------------------------------------------------------------------------
(* The host: uploader.py, Uploader.__init__ and write_file *)

\* A new connection: the line of U's is for the detection of the rate.
Connect ==
    /\ pc \in {"off", "returned", "raised"}
    /\ try < MaxTries
    /\ try' = try + 1
    /\ sent' = 0
    /\ Clear
    /\ Send("noise")
    /\ pc' = "noise"
    /\ UNCHANGED <<file, deviceVars, surplus, failed>>

\* "Get a defined state."
Semi ==
    /\ pc = "noise"
    /\ UNCHANGED <<file, try, sent, deviceVars, surplus, failed>>
    /\ Clear
    /\ Send("semi")
    /\ pc' = "semi"

AskSync ==
    /\ pc = "semi"
    /\ UNCHANGED <<file, try, sent, deviceVars, surplus, failed>>
    /\ Await(<<">", " ">>)
    /\ Send("sync")
    /\ pc' = "sync"

\* Variant with a fault: any prompt will do.
SyncAnswerAny == <<">", " ">>

\* What is waited for to get in step.
SyncAnswer == <<"sync", ">", " ">>

\* The answer may be one to the print of an earlier attempt.
Open ==
    /\ pc = "sync"
    /\ UNCHANGED <<file, try, sent, deviceVars, failed>>
    /\ \E k \in 1 .. Len(tx) :
        /\ Answered(SyncAnswer, k)
        /\ Consume(k)
        /\ surplus' = IF \E i \in 1 .. k : tx[i][1] = "sync" /\ tx[i][2] # try
                      THEN surplus \cup {try} ELSE surplus
    /\ Send("open")
    /\ pc' = "open"

NextLine ==
    /\ pc \in {"open", "line"}
    /\ sent < Len(file)
    /\ sent' = sent + 1
    /\ UNCHANGED <<file, try, deviceVars, surplus, failed>>
    /\ Await(<<">">>)
    /\ Send("line")
    /\ pc' = "line"

Close ==
    /\ pc \in {"open", "line"}
    /\ sent = Len(file)
    /\ UNCHANGED <<file, try, sent, deviceVars, surplus, failed>>
    /\ Await(<<">">>)
    /\ Send("close")
    /\ pc' = "close"

\* Variant with a fault: the answer to the close is not waited for.
ReturnAtOnce ==
    /\ pc = "close"
    /\ pc' = "returned"
    /\ UNCHANGED <<file, try, sent, rx, tx, deviceVars, surplus, failed>>

Return ==
    /\ pc = "close"
    /\ Await(<<">">>)
    /\ pc' = "returned"
    /\ UNCHANGED <<file, try, sent, rx, deviceVars, surplus, failed>>

\* Variant with a fault: the time is looked at only when something arrives.
TimeoutOnData ==
    /\ pc \in Stages \ {"noise"}
    /\ tx # <<>>
    /\ pc' = "raised"
    /\ UNCHANGED <<file, try, sent, rx, deviceVars, surplus, failed>>
    /\ \E k \in 1 .. Len(tx) : Consume(k)

\* CommunicationTimeout; what has arrived by then is read and lost.
Timeout ==
    /\ pc \in Stages \ {"noise"}
    /\ pc' = "raised"
    /\ UNCHANGED <<file, try, sent, rx, deviceVars, surplus, failed>>
    /\ Clear

HostStep == Semi \/ AskSync \/ Open \/ NextLine \/ Close \/ Return \/ Timeout
-----------------------------------------------------------------------------
(* The device: lua_main.c, doREPL; liolib.c *)

\* Variant with a fault: the file is opened for appending.
OpenAppending(a) == fd' = a /\ UNCHANGED disk

\* fd = io.open(name, 'w').
OpenFile(a) == fd' = a /\ disk' = <<>>

\* Variant with a fault: fd keeps the file of an earlier attempt.
OpenFailsKeeping == UNCHANGED <<fd, disk>>

\* io.open returns nil and a message.
OpenFails == fd' = 0 /\ UNCHANGED disk

Answer(chars) == tx' = tx \o chars

\* What the string between the quotes is, next to line n of the file.
Literal(n) == IF file[n] = "altered" THEN "other" ELSE "same"

\* The statement is executed; the file operation in it may fail.
Execute(l) ==
    CASE l.what = "open" ->
           UNCHANGED failed /\ (OpenFile(l.try) \/ OpenFails)
      [] l.what = "line" ->
           /\ UNCHANGED fd
           /\ \/ fd # 0 /\ disk' = Append(disk, <<l.try, l.n, Literal(l.n)>>) /\ UNCHANGED failed
              \/ UNCHANGED disk /\ failed' = failed \cup {l.try}
      [] l.what = "close" ->
           /\ UNCHANGED disk
           /\ fd' = 0
           /\ failed' = IF fd = 0 THEN failed \cup {l.try} ELSE failed
      [] OTHER -> UNCHANGED <<fd, disk, failed>>

\* The line is a statement.
Compiles(l) == l.what = "line" => file[l.n] \in {"plain", "altered"}

\* addreturn or multiline compiles the line, docall executes it.
Statement(l) ==
    /\ ~ more /\ Compiles(l)
    /\ Execute(l)
    /\ Answer(IF l.what = "sync" THEN <<<<"sync", l.try>>>> \o Prompt ELSE Prompt)
    /\ UNCHANGED <<more, surplus>>

\* The message quotes the line, which may hold a ">".
Refuse(l) ==
    /\ \E quoted \in {<<>>, <<Char(">")>>} :
        /\ Answer(quoted \o Prompt)
        /\ surplus' = IF quoted = <<>> THEN surplus ELSE surplus \cup {l.try}
    /\ failed' = IF l.what \in Sending THEN failed \cup {l.try} ELSE failed
    /\ more' = FALSE
    /\ UNCHANGED <<fd, disk>>

\* A string that ends at the end of the line is unfinished near <eof>.
Continue(l) ==
    /\ more' = TRUE
    /\ Answer(Prompt2)
    /\ surplus' = surplus \cup {l.try}
    /\ failed' = failed \cup {l.try}
    /\ UNCHANGED <<fd, disk>>

ReadLine ==
    /\ rx # <<>>
    /\ rx' = Tail(rx)
    /\ UNCHANGED <<hostVars, restarts>>
    /\ LET l == Head(rx)
       IN \/ Statement(l)
          \/ (more \/ (~ Compiles(l) /\ file[l.n] = "refused")) /\ Refuse(l)
          \/ ~ more /\ ~ Compiles(l) /\ file[l.n] = "unfinished" /\ Continue(l)

\* A reset: the loop starts with a prompt.
Restart ==
    /\ restarts < MaxRestarts
    /\ restarts' = restarts + 1
    /\ rx' = <<>>
    /\ Answer(Prompt)
    /\ more' = FALSE
    /\ fd' = 0
    /\ \E k \in 0 .. Len(disk) : disk' = SubSeq(disk, 1, k)
    /\ surplus' = surplus \cup {try}
    /\ UNCHANGED <<hostVars, failed>>

Next == Connect \/ HostStep \/ ReadLine \/ Restart

Spec == Init /\ [][Next]_vars

\* The host reads with a timeout.  Nothing is asked of the device.
FairSpec == Spec /\ WF_vars(HostStep)
-----------------------------------------------------------------------------
Lines == [try : Tries, what : Stages, n : 0 .. MaxLines]
Chars == {Char(">"), Char(" ")} \cup {<<"sync", a>> : a \in Tries}

Entries == Tries \X (1 .. MaxLines) \X {"same", "other"}

\* Types; a remote file is never longer than the local one, whatever was
\* left there by an earlier attempt.
UTypeOK ==
    /\ file \in Seq(Kinds) /\ Len(file) <= MaxLines
    /\ pc \in Stages \cup {"off", "returned", "raised"}
    /\ try \in 0 .. MaxTries /\ sent \in 0 .. Len(file)
    /\ rx \in Seq(Lines) /\ tx \in Seq(Chars)
    /\ more \in BOOLEAN
    /\ fd \in 0 .. MaxTries
    /\ disk \in Seq(Entries) /\ Len(disk) <= Len(file)
    /\ restarts \in 0 .. MaxRestarts
    /\ surplus \subseteq 0 .. MaxTries /\ failed \subseteq Tries

\* The connection has brought the host in step (__sync): while a file is sent
\* one line is unread or one prompt unseen, whatever earlier attempts left on
\* the line, unless the attempt met a prompt that answers no line of its own.
InStep ==
    pc \in Sending /\ try \notin surplus =>
        Len(rx) + Cardinality({i \in DOMAIN tx : tx[i][1] = ">"}) = 1

\* Lines that are late do not get into the file of another attempt: what the
\* remote file holds is of one attempt, in order and without repetition.
OneAttempt ==
    \A i, j \in DOMAIN disk :
        i < j => disk[i][1] = disk[j][1] /\ disk[i][2] < disk[j][2]

\* When write_file returns and the device has refused no line, every line of the
\* local file is in the remote one, in order and once, the file is closed, and a
\* line that stands for itself between quotes is as it was, although the host reads
\* no answer: unless the attempt met a prompt that answers no line of its own, or
\* a statement failed on the device.
Intact ==
    pc = "returned" /\ try \notin surplus \cup failed =>
        /\ fd = 0
        /\ Len(disk) = Len(file)
        /\ \A n \in 1 .. Len(file) :
              /\ disk[n][1] = try /\ disk[n][2] = n
              /\ file[n] = "plain" => disk[n][3] = "same"

\* The host comes to an end, whether the device answers or not.
AttemptEnds == pc \in Stages ~> pc \in {"returned", "raised"}
=============================================================================
