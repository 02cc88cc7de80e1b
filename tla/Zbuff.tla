-------------------------------- MODULE Zbuff --------------------------------
(***************************************************************************)
(* One zbuff (components/modules/lua-tuyaopen/src/lua_zbuff.c): a piece of *)
(* memory with one number that is read both as the cursor of a stream      *)
(* (write, read, seek, pack, unpack) and as the amount of data in a        *)
(* growing string of bytes (copy, del, query, resize).                     *)
(*                                                                         *)
(* Each function runs to its end: Lua states do not share a zbuff.  Bytes  *)
(* past the end of the memory are not part of it: what is read there is    *)
(* Undef, and what is written there is only counted, in spill.             *)
(*                                                                         *)
(* Left out: frame buffers (CONFIG_FRAMEBUFFER is not defined), isEqual,   *)
(* what query makes of 1, 2, 4 or 8 bytes, memory that runs out between    *)
(* two integers of one copy, and negative lengths and offsets past the end *)
(* where the function has no check for them.  A zbuff whose data lies past *)
(* its memory is not followed further: the room that is left, an unsigned  *)
(* len - used, is then wrong in every function.                            *)
(***************************************************************************)
EXTENDS Integers, Sequences

CONSTANTS
    Calls,              \* functions the script calls
    Bytes,              \* values of bytes
    Undef,              \* the content of memory nobody has written
    Lens,               \* arguments of create and resize
    Data,               \* strings
    Ints,               \* sequences of integers, as arguments of copy
    Starts,             \* offsets and lengths, some counted from the end
    Nil,                \* an argument that is not given
    Widths,             \* widths of the typed reads and writes, in bytes
    Formats,            \* formats of pack, of bytes and shorts: sequences of
                        \* <<byte order, width>>
    Numbers,            \* what is packed
    MaxLen              \* bound on the length of the memory

ASSUME ZbuffAssumption ==
    /\ Bytes \subseteq 0 .. 255
    /\ 0 \in Bytes
    /\ Undef \notin Bytes
    /\ Lens \subseteq 0 .. MaxLen
    /\ Data \subseteq Seq(Bytes) /\ Data # {}
    /\ Ints \subseteq Seq(Bytes) \ {<<>>}
    /\ Starts \subseteq Int
    /\ Nil \notin Starts
    /\ Widths \subseteq 1 .. 8
    /\ MaxLen \in Nat

ASSUME PackAssumption ==
    /\ Formats \subseteq Seq({"little", "big"} \X {1, 2})
    /\ Numbers \subseteq Seq(Nat)
    /\ \A numbers \in Numbers : \A i \in 1 .. Len(numbers) :
          numbers[i] % 256 \in Bytes /\ (numbers[i] \div 256) % 256 \in Bytes

VARIABLES
    len,                \* the length of the memory
    mem,                \* addr[0 .. len - 1]
    used,               \* used, which is cursor
    spill,              \* bytes past the end that the last call has written
    reply,              \* what the last call returned: a count and bytes
    packed              \* what was packed where, while nothing is overwritten

vars == <<len, mem, used, spill, reply, packed>>

Cells == Bytes \cup {Undef}

Least(a, b) == IF a < b THEN a ELSE b
Most(a, b) == IF a > b THEN a ELSE b

Nothing == [at |-> 0, format |-> <<>>, numbers |-> <<>>, n |-> 0]

\* A string that is created with room for more, or a fill.
Init ==
    /\ len \in Lens \ {0}
    /\ \/ \E b \in Bytes : mem = [i \in 0 .. len - 1 |-> b] /\ used = 0
       \/ \E d \in Data :
             /\ used = Least(Len(d), len)
             /\ mem = [i \in 0 .. len - 1 |-> IF i < used THEN d[i + 1] ELSE Undef]
    /\ spill = 0
    /\ reply = [n |-> 0, data |-> <<>>]
    /\ packed = Nothing
-----------------------------------------------------------------------------
(* Helpers *)

Answer(n, data) == reply' = [n |-> n, data |-> data]

\* memcpy of d to offset at of m.
Stored(m, at, d) ==
    [i \in DOMAIN m |-> IF i \in at .. at + Len(d) - 1 THEN d[i - at + 1] ELSE m[i]]

\* The n bytes from offset at on.
Slice(m, at, n) ==
    [i \in 1 .. n |-> IF at + i - 1 \in DOMAIN m THEN m[at + i - 1] ELSE Undef]

Content == Slice(mem, 0, used)
Whole == Slice(mem, 0, len)

\* __zbuff_resize: a new memory, with the bytes in use copied.
Resized(m, u, n) == [i \in 0 .. n - 1 |-> IF i < u THEN m[i] ELSE Undef]

\* luaL_optinteger
Given(arg, default) == IF arg = Nil THEN default ELSE arg

\* An offset that may be counted from the end.
From(start, default) ==
    LET at == Given(start, default) IN IF at < 0 THEN used + at ELSE at

\* A call that changes nothing.
Refuse ==
    /\ Answer(0, <<>>)
    /\ spill' = 0
    /\ UNCHANGED <<len, mem, used, packed>>
-----------------------------------------------------------------------------
(* The stream *)

\* add_bytes, and the loops of write: what does not fit is cut off.
Write(d) ==
    LET n == Least(Len(d), len - used)
    IN  /\ "write" \in Calls
        /\ mem' = Stored(mem, used, SubSeq(d, 1, n))
        /\ used' = used + n
        /\ Answer(n, <<>>)
        /\ spill' = 0
        /\ packed' = Nothing
        /\ UNCHANGED len

\* The next n bytes are returned.
Take(n) ==
    /\ Answer(n, Slice(mem, used, n))
    /\ used' = used + n
    /\ spill' = 0
    /\ UNCHANGED <<len, mem, packed>>

\* A negative number of bytes, converted to size_t, is more than is left.  The
\* bytes go through memory of their own, which may be missing.
Read(request) ==
    LET left == len - used
        n == IF request < 0 THEN left ELSE Least(request, left)
    IN  /\ "read" \in Calls
        /\ Take(n) \/ (n > 0 /\ Refuse)

\* readI8 ... readF64: all of the bytes or none.
ReadTyped(width) ==
    /\ "typed" \in Calls
    /\ IF len - used < width THEN Refuse ELSE Take(width)

\* Variant with a fault: an offset before the start is accepted.
SeekBelow(offset, base) ==
    LET to == CASE base = "set" -> offset
                [] base = "cur" -> used + offset
                [] base = "end" -> len + offset
    IN  /\ "seek" \in Calls
        /\ used' = Least(to, len)
        /\ Answer(used', <<>>)
        /\ spill' = 0
        /\ UNCHANGED <<len, mem, packed>>

Seek(offset, base) ==
    LET to == CASE base = "set" -> offset
                [] base = "cur" -> used + offset
                [] base = "end" -> len + offset
    IN  /\ "seek" \in Calls
        /\ used' = Least(Most(to, 0), len)
        /\ Answer(used', <<>>)
        /\ spill' = 0
        /\ UNCHANGED <<len, mem, packed>>

\* The bytes of a number of the given width, the lowest first.
Lowest(v, width) ==
    LET left[k \in 0 .. width] == IF k = 0 THEN v ELSE left[k - 1] \div 256
    IN  [k \in 1 .. width |-> left[k - 1] % 256]

Backwards(s) == [k \in 1 .. Len(s) |-> s[Len(s) + 1 - k]]

\* Variant with a fault: big endian is not swapped.
EncodedNative(field, v) == Lowest(v, field[2])

\* doswap, on a little endian device
Encoded(field, v) ==
    IF field[1] = "big" THEN Backwards(Lowest(v, field[2])) ELSE Lowest(v, field[2])

\* doswap, and the sum of the bytes
Decoded(field, s) ==
    LET low == IF field[1] = "big" THEN Backwards(s) ELSE s
    IN  IF field[2] = 1 THEN low[1] ELSE low[1] + 256 * low[2]

\* Where the k-th field of a format begins.
Place(format) ==
    LET at[k \in 1 .. Len(format) + 1] ==
            IF k = 1 THEN 0 ELSE at[k - 1] + format[k - 1][2]
    IN  at

\* The fields one after the other.
Packing(format, numbers) ==
    LET at == Place(format)
    IN  [i \in 1 .. at[Len(format) + 1] |->
           LET k == CHOOSE j \in 1 .. Len(format) : at[j] < i /\ i <= at[j + 1]
           IN  Encoded(format[k], numbers[k])[i - at[k]]]

\* writeI8 ... writeF64: all of the bytes or none, the lowest first.
WriteTyped(width, v) ==
    /\ "typed" \in Calls
    /\ IF len - used < width THEN Refuse
       ELSE /\ mem' = Stored(mem, used, Lowest(v, width))
            /\ used' = used + width
            /\ Answer(width, <<>>)
            /\ spill' = 0
            /\ packed' = Nothing
            /\ UNCHANGED len

\* pack writes field after field and stops where the memory ends, in the
\* middle of a field if need be.
Pack(format, numbers) ==
    LET bytes == Packing(format, numbers)
        n == Least(Len(bytes), len - used)
    IN  /\ "pack" \in Calls
        /\ Len(numbers) = Len(format)
        /\ \A k \in 1 .. Len(format) : numbers[k] < 256 ^ format[k][2]
        /\ mem' = Stored(mem, used, SubSeq(bytes, 1, n))
        /\ used' = used + n
        /\ Answer(n, <<>>)
        /\ packed' = [at |-> used, format |-> format, numbers |-> numbers, n |-> n]
        /\ spill' = 0
        /\ UNCHANGED len

\* unpack reads the leading fields that are there in full ...
Fitting(format, left) ==
    CHOOSE k \in 0 .. Len(format) :
        /\ Place(format)[k + 1] <= left
        /\ k < Len(format) => Place(format)[k + 2] > left

\* ... from offset at on.
Unpacked(format, at) ==
    [k \in 1 .. Fitting(format, len - at) |->
        Decoded(format[k], Slice(mem, at + Place(format)[k], format[k][2]))]

Unpack(format) ==
    LET n == Place(format)[Fitting(format, len - used) + 1]
    IN  /\ "unpack" \in Calls
        /\ Undef \notin {Slice(mem, used, n)[i] : i \in 1 .. n}
        /\ Answer(n, Unpacked(format, used))
        /\ used' = used + n
        /\ spill' = 0
        /\ UNCHANGED <<len, mem, packed>>

\* buff[o], where a negative offset is too large for size_t
Index(o) ==
    /\ "index" \in Calls
    /\ IF o \in 0 .. len - 1
         THEN Answer(1, Slice(mem, o, 1)) /\ spill' = 0 /\ UNCHANGED <<len, mem, used, packed>>
         ELSE Refuse

\* buff[o] = b: the check lets the offset be the length.
NewIndex(o, b) ==
    /\ "newindex" \in Calls
    /\ IF o \in 0 .. len
         THEN /\ mem' = Stored(mem, o, <<b>>)
              /\ spill' = IF o = len THEN 1 ELSE 0
              /\ packed' = Nothing
              /\ Answer(0, <<>>)
              /\ UNCHANGED <<len, used>>
         ELSE Refuse

\* toStr takes from the whole memory, whatever is in use.
ToStr(start, request) ==
    LET given == Given(start, 0)
        at == IF given \in 0 .. len THEN given ELSE len
        asked == Given(request, len)
        n == Least(asked, len - at)
    IN  /\ "toStr" \in Calls
        /\ asked >= 0
        /\ Answer(n, Slice(mem, at, n))
        /\ spill' = 0
        /\ UNCHANGED <<len, mem, used, packed>>
-----------------------------------------------------------------------------
(* The string of bytes *)

\* A buffer or a string is copied to offset at; where the memory is too small
\* a larger one is made, or there is none.
CopyTo(at, d) ==
    LET end == at + Len(d)
        n == len + end
    IN  \/ /\ end <= len
           /\ mem' = Stored(mem, at, d)
           /\ used' = Most(end, used)
           /\ Answer(Len(d), <<>>)
           /\ spill' = 0
           /\ packed' = Nothing
           /\ UNCHANGED len
        \/ /\ end > len
           /\ n <= MaxLen
           /\ len' = n
           /\ mem' = Stored(Resized(mem, used, n), at, d)
           /\ used' = Most(end, used)
           /\ Answer(Len(d), <<>>)
           /\ spill' = 0
           /\ packed' = Nothing
        \/ end > len /\ Refuse

Copy(start, d) ==
    LET at == From(start, used)
    IN  /\ "copy" \in Calls
        /\ IF at < 0 THEN Refuse ELSE CopyTo(at, d)

\* A buffer that is appended to itself.
CopySelf ==
    /\ "copy" \in Calls
    /\ CopyTo(used, Content)

\* One integer of copy: the memory grows only when the offset is past its end,
\* and what the loop has written behind the bytes in use is not copied.
PutInt(s, b) ==
    LET grows == s.at > s.len
        n == IF grows THEN 2 * s.at ELSE s.len
        m == IF grows THEN Resized(s.mem, used, n) ELSE s.mem
    IN  [len |-> n, mem |-> Stored(m, s.at, <<b>>), at |-> s.at + 1,
         spill |-> IF s.at = n THEN 1 ELSE s.spill]

\* What the loop has come to after k of the integers.
PuttingInts(at, d) ==
    LET after[k \in 0 .. Len(d)] ==
            IF k = 0 THEN [len |-> len, mem |-> mem, at |-> at, spill |-> 0]
                     ELSE PutInt(after[k - 1], d[k])
    IN  after

CopyInts(start, d) ==
    LET at == From(start, used)
        end == PuttingInts(at, d)[Len(d)]
    IN  /\ "copyInts" \in Calls
        /\ IF at < 0 THEN Refuse
           ELSE /\ end.len <= MaxLen
                /\ len' = end.len
                /\ mem' = end.mem
                /\ used' = Most(end.at, used)
                /\ spill' = end.spill
                /\ packed' = Nothing
                /\ Answer(Len(d), <<>>)

\* Variant with a fault: the rest is moved one byte too far.
MovedFar(at, n, rest) == [i \in DOMAIN mem |->
    IF i \in at .. at + rest - 1 THEN Slice(mem, i + n + 1, 1)[1] ELSE mem[i]]

\* memmove of rest bytes from offset at + n to offset at.
Moved(at, n, rest) == [i \in DOMAIN mem |->
    IF i \in at .. at + rest - 1 THEN Slice(mem, i + n, 1)[1] ELSE mem[i]]

\* Of what follows the deleted bytes as many bytes are moved as will be left
\* in all, the ones before them counted.
Del(start, request) ==
    LET at == From(start, 0)
        asked == Given(request, used)
        n == IF at + asked > used THEN used - at ELSE asked
        rest == used - n
    IN  /\ "del" \in Calls
        /\ asked >= 0
        /\ IF at < 0 \/ at >= used \/ n = 0 THEN Refuse
           ELSE /\ IF at + n = used
                     THEN used' = at /\ spill' = 0 /\ UNCHANGED mem
                     ELSE /\ mem' = Moved(at, n, rest)
                          /\ used' = rest
                          /\ spill' = Most(at + rest - len, 0)
                /\ packed' = Nothing
                /\ Answer(0, <<>>)
                /\ UNCHANGED len

Query(start, request) ==
    LET at == Least(From(start, 0), used)
        asked == Given(request, used)
        n == IF at + asked > used THEN used - at ELSE asked
    IN  /\ "query" \in Calls
        /\ asked >= 0
        /\ IF at < 0 THEN Refuse
           ELSE /\ Answer(n, Slice(mem, at, n))
                /\ spill' = 0
                /\ UNCHANGED <<len, mem, used, packed>>

\* Variant with a fault: the data is cut off and the number stays.
ResizeLong(n) ==
    /\ "resize" \in Calls
    /\ len' = n
    /\ mem' = Resized(mem, used, n)
    /\ Answer(0, <<>>)
    /\ spill' = 0
    /\ packed' = Nothing
    /\ UNCHANGED used

\* The memory is replaced, or there is no new one.
Resize(n) ==
    /\ "resize" \in Calls
    /\ \/ /\ len' = n
          /\ mem' = Resized(mem, used, n)
          /\ used' = Least(used, n)
          /\ Answer(0, <<>>)
          /\ spill' = 0
          /\ packed' = Nothing
       \/ Refuse

\* set, and clear, which is set with no offset and no length.
Set(start, request, b) ==
    LET at == Given(start, 0)
        asked == Given(request, len)
        n == IF at + asked > len THEN len - at ELSE asked
    IN  /\ "set" \in Calls
        /\ at \in 0 .. len
        /\ asked >= 0
        /\ mem' = Stored(mem, at, [i \in 1 .. n |-> b])
        /\ packed' = Nothing
        /\ Answer(0, <<>>)
        /\ spill' = 0
        /\ UNCHANGED <<len, used>>
-----------------------------------------------------------------------------
Stream ==
    \/ \E d \in Data : Write(d)
    \/ \E n \in Starts : Read(n)
    \/ \E width \in Widths : ReadTyped(width)
    \/ \E width \in Widths, v \in Bytes : WriteTyped(width, v)
    \/ \E n \in Starts, base \in {"set", "cur", "end"} : Seek(n, base)
    \/ \E format \in Formats, numbers \in Numbers : Pack(format, numbers)
    \/ \E format \in Formats : Unpack(format)

String ==
    \/ \E start \in Starts \cup {Nil}, d \in Data : Copy(start, d)
    \/ CopySelf
    \/ \E start \in Starts, d \in Ints : CopyInts(start, d)
    \/ \E start, n \in Starts \cup {Nil} : Del(start, n) \/ Query(start, n)
    \/ \E n \in Lens : Resize(n)
    \/ \E start, n \in Starts \cup {Nil}, b \in Bytes : Set(start, n, b)
    \/ \E o \in Starts, b \in Bytes : Index(o) \/ NewIndex(o, b)
    \/ \E start, n \in Starts \cup {Nil} : ToStr(start, n)

Next == used <= len /\ (Stream \/ String)

Spec == Init /\ [][Next]_vars
-----------------------------------------------------------------------------
(* Properties *)

\* The type of every variable.
ZTypeOK ==
    /\ len \in 0 .. MaxLen
    /\ mem \in [0 .. len - 1 -> Cells]
    /\ used \in Nat
    /\ spill \in Nat
    /\ reply.n \in Nat

\* The data lies inside the memory, whatever was resized, deleted, appended or
\* sought: every function computes the room that is left as len - used.  Only a
\* copy of integers that writes past the memory leaves the data outside.
UsedFits == spill = 0 => used <= len

\* What was packed is read back by unpack with the same format, as far as its
\* fields were written in full, until some call writes or replaces the memory.
PackedReadsBack ==
    \A k \in 1 .. Fitting(packed.format, packed.n) :
        Unpacked(packed.format, packed.at)[k] = packed.numbers[k]

Store == INSTANCE ByteString WITH bytes <- Whole, end <- used

\* A call of the stream does what ByteString says of the same call.
StreamCall ==
    /\ \A d \in Data : Write(d) => Store!Write(d)
    /\ \A n \in Starts : Read(n) => Store!Read(n)
    /\ \A width \in Widths : ReadTyped(width) => Store!ReadTyped(width)
    /\ \A width \in Widths, v \in Bytes :
          WriteTyped(width, v) => Store!WriteTyped(width, v)
    /\ \A n \in Starts, base \in {"set", "cur", "end"} :
          Seek(n, base) => Store!Seek(n, base)
    /\ \A format \in Formats, numbers \in Numbers :
          Pack(format, numbers) => Store!Write(Packing(format, numbers))
    /\ \A format \in Formats : Unpack(format) => Store!Unpack(format, Place(format))

\* A call that uses the string does what ByteString says of the same call, also
\* where it writes past the memory: except a copy of integers that does.
StringCall ==
    /\ \A start \in Starts \cup {Nil}, d \in Data : Copy(start, d) => Store!Copy(start, d)
    /\ CopySelf => Store!CopySelf
    /\ \A start \in Starts, d \in Ints :
          CopyInts(start, d) /\ spill' = 0 => Store!Copy(start, d)
    /\ \A start, n \in Starts \cup {Nil} :
          /\ Del(start, n) => Store!Del(start, n)
          /\ Query(start, n) => Store!Query(start, n)
          /\ ToStr(start, n) => Store!ToStr(start, n)
    /\ \A n \in Lens : Resize(n) => Store!Resize(n)
    /\ \A start, n \in Starts \cup {Nil}, b \in Bytes :
          Set(start, n, b) => Store!Set(start, n, b)
    /\ \A o \in Starts, b \in Bytes :
          /\ Index(o) => Store!Index(o)
          /\ NewIndex(o, b) => Store!NewIndex(o, b)

\* To a script, a zbuff is a string of bytes: each function leaves the bytes and
\* returns the bytes that ByteString derives from its arguments, however the memory
\* behind it was replaced, moved or cut off.
ImplementsByteString == [][StreamCall /\ StringCall]_vars
=============================================================================
