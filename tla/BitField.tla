------------------------------- MODULE BitField -------------------------------
(***************************************************************************)
(* redis/client.py: BitFieldOperation, which builds a BITFIELD command out *)
(* of operations and sends it on a connection.  Redis begins each BITFIELD *)
(* with overflow WRAP; the builder sends OVERFLOW only if it thinks that   *)
(* Redis is at another one.                                                *)
(***************************************************************************)
EXTENDS Parser

CONSTANTS Overflows,      \* WRAP, SAT and FAIL
          MaxOperations   \* bound on what is in a command before the last call

VARIABLES
  default,        \* default_overflow, WRAP if it was not given
  operations,     \* operations of the builder
  last_overflow,  \* _last_overflow
  mode,           \* history: the overflow that the caller wants,
  wanted          \* history: and has wanted for each operation

builderVars == <<operations, last_overflow, mode, wanted>>
wireVars == <<vars, default, builderVars>>

\* GET reads a value, whatever overflows; the others write one, or fail to.
Names == {"GET", "SET", "INCRBY"}
Result(name, overflow) == Reply(IF name = "GET" THEN "value" ELSE overflow, <<>>, <<>>)

ASSUME BitFieldAssumption ==
  /\ "WRAP" \in Overflows
  /\ {"BITFIELD", "key", "OVERFLOW"} \cup Names \cup Overflows \subseteq Types
  /\ MaxOperations \in Nat
  /\ \A k \in 0..(MaxOperations + 1) :
       \A q \in [1..k -> {Result(name, o) : name \in Names, o \in Overflows}] : Array(q) \in Replies

\* The list of operations when overflow() is asked for o.
WithOverflow(ops, last, o) == IF o = last THEN ops ELSE Append(ops, <<"OVERFLOW", o>>)

\* reset(), as in a new builder.
Reset ==
  /\ operations' = WithOverflow(<<>>, "WRAP", default)
  /\ last_overflow' = default
  /\ mode' = default /\ wanted' = <<>>

BitFieldInit ==
  /\ default \in Overflows
  /\ operations = WithOverflow(<<>>, "WRAP", default)
  /\ last_overflow = default
  /\ mode = default /\ wanted = <<>>

-----------------------------------------------------------------------------
\* overflow(), for the operations to come.
Overflow(o) ==
  /\ NothingOwed /\ Len(operations) <= MaxOperations
  /\ operations' = WithOverflow(operations, last_overflow, o)
  /\ last_overflow' = o /\ mode' = o
  /\ UNCHANGED wanted

\* incrby(), get() and set(); incrby may be given an overflow as well.
Operation(name, o) ==
  /\ NothingOwed /\ Len(operations) <= MaxOperations
  /\ o = "None" \/ name = "INCRBY"
  /\ last_overflow' = IF o = "None" THEN last_overflow ELSE o
  /\ mode' = IF o = "None" THEN mode ELSE o
  /\ operations' = Append(WithOverflow(operations, last_overflow, last_overflow'), <<name>>)
  /\ wanted' = Append(wanted, Result(name, mode'))

\* The words of the command, after its name and the key.
Words == FlattenSeq(operations)

\* Redis carries out the operations in turn.
Results ==
  LET Carry(done, op) ==
        IF op[1] = "OVERFLOW" THEN [done EXCEPT !.overflow = op[2]]
        ELSE [done EXCEPT !.results = Append(@, Result(op[1], done.overflow))]
  IN FoldLeft(Carry, [overflow |-> "WRAP", results |-> <<>>], operations).results

\* execute(): the builder is reset before the command is sent.
Execute ==
  LET Text(word) == Chunk(<<[t |-> word, n |-> 0]>>, FALSE)
      cmd == [name |-> <<Text("BITFIELD").text>>,
              args |-> <<Text("key")>> \o [i \in DOMAIN Words |-> Text(Words[i])],
              reply |-> Array(Results)]
  IN Send(<<cmd>>, <<Array(wanted)>>, FALSE) /\ Reset /\ UNCHANGED default

BitFieldStep ==
  \/ \E o \in Overflows : Overflow(o)
  \/ \E o \in Overflows \cup {"None"}, name \in Names : Operation(name, o)

WireInit == Init /\ BitFieldInit

\* A thread that builds a command sends no other one meanwhile.
WireNext ==
  \/ Next /\ (NothingOwed => wanted = <<>>) /\ UNCHANGED <<default, builderVars>>
  \/ BitFieldStep /\ UNCHANGED <<vars, default>>
  \/ Execute

\* What was sent arrives, and read_response goes on.
WireSpec ==
  WireInit /\ [][WireNext]_wireVars /\ WF_wireVars(ParserStep /\ UNCHANGED <<default, builderVars>>)
=============================================================================
