------------------------------ MODULE MCZbuff ------------------------------
(* Small strings, formats and numbers for TLC. *)
EXTENDS Zbuff

MCCalls == {"write", "read", "typed", "seek", "pack", "unpack", "index",
            "newindex", "toStr", "copy", "copyInts", "del", "query", "set",
            "resize"}

MCData == {<<>>, <<0, 1>>}
MCInts == {<<1>>}
MCStarts == {-1, 0, 1, 2}

\* A byte and a big endian short.
MCFormats == {<<<<"little", 1>>, <<"big", 2>>>>}
MCNumbers == {<<1, 256>>}

\* Nothing is decided by what the last call has returned: states that differ in it
\* only are one, and each of their steps is checked.
MCView == <<len, mem, used, spill, packed>>
=============================================================================
