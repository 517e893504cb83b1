-------------------------------- MODULE MCWire --------------------------------
(* Replies for TLC: each type, a bulk with a CRLF in it, arrays in arrays, and *)
(* an error that stands for a lost connection, alone and in an array; a        *)
(* command for each, with arguments below and above the cutoff.                *)
EXTENDS BitField

Plain(t) == Reply(t, <<>>, <<>>)
Bulk(text) == Reply("bulk", text, <<>>)
Letter == [t |-> "letter", n |-> 0]

Pair == Array(<<Bulk(<<CRLF>>), Plain("error")>>)

Word == <<Letter>>
Long == [i \in 1..(BufferCutoff + 1) |-> Letter]
Small == Chunk(Word, FALSE)
Large == Chunk(Long, FALSE)
View == Chunk(<<CRLF>>, TRUE)

Command(name, args, reply) == [name |-> name, args |-> args, reply |-> reply]

MCCommands ==
  {Command(<<Word>>, <<>>, Plain("status")),
   Command(<<Word, Word>>, <<Small>>, Plain("error")),
   Command(<<Long>>, <<>>, Plain("down")),
   Command(<<Word>>, <<Chunk(<<>>, FALSE)>>, Bulk(<<>>)),
   Command(<<Word>>, <<Large, Small>>, Bulk(<<Letter, CRLF>>)),
   Command(<<Word>>, <<View>>, Array(<<>>)),
   Command(<<Word>>, <<View, View>>, Pair),
   Command(<<Word>>, <<Small, Small, Small>>, Array(<<Pair, Array(<<>>), Null>>)),
   Command(<<Word>>, <<Small, Large, Large>>, Array(<<Plain("status"), Plain("down")>>))}

MCTypes ==
  {"CRLF", "letter", "status", "value", "error", "down", "null", "bulk", "array",
   "BITFIELD", "key", "OVERFLOW"} \cup Names \cup Overflows

MCReplies ==
  LET items == {Result(name, o) : name \in Names, o \in Overflows} IN
  {c.reply : c \in MCCommands} \cup {Null, Bulk(<<CRLF>>)} \cup items
    \cup {Array(q) : q \in UNION {[1..k -> items] : k \in 0..(MaxOperations + 1)}}
=============================================================================
