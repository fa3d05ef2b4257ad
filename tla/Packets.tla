------------------------------- MODULE Packets -------------------------------
(***************************************************************************)
(* The packets by which the VM talks to a debugger (Bits.h, jdwp/Jdwp.h,   *)
(* jdwp/ExpandBuf.h): numbers of one to eight bytes in either order, and   *)
(* strings with their length in front.  The sender appends them to a       *)
(* buffer; the receiver takes them out with a cursor that each of them     *)
(* must leave at the beginning of the next.                                *)
(***************************************************************************)
EXTENDS ByteOrder, Sequences, SequencesExt, FiniteSetsExt

CONSTANTS
    Widths,       \* the numbers of bytes of numbers, of 1, 2, 4 and 8
    Characters,   \* of strings; 0 ends them
    BufLen,       \* of the buffer that a string is read into
    MaxFields, MaxText   \* bounds on what is sent

ASSUME PacketsAssumption ==
    /\ Widths \subseteq {1, 2, 4, 8}
    /\ Characters \subseteq 1 .. (BYTE - 1)
    /\ BufLen \in Nat \ {0}
    /\ MaxFields \in Nat /\ MaxText \in Nat
    /\ MaxText < Power[4]   \* lengths are u4

VARIABLES
    buf,        \* the bytes
    sent,       \* history: the fields
    ppSrc,      \* the receiver's cursor
    received    \* history: what it has made of the fields

packetVars == <<buf, sent, ppSrc, received>>

Orders == {"BE", "LE"}
EdgesOf(n) == {0, 1, Power[n] - 1, Power[n - 1], Power[n] - BYTE}
Fields ==
    (UNION {[kind : Orders, width : {n}, value : {<<v>> : v \in EdgesOf(n)}] : n \in Widths})
      \cup [kind : {"utf8"}, width : {0}, value : UNION {[1 .. n -> Characters] : n \in 0 .. MaxText}]

PacketsTypeOK ==
    /\ buf \in Seq(Byte)
    /\ sent \in Seq(Fields) /\ Len(sent) <= MaxFields
    /\ ppSrc \in 0 .. Len(buf)
    /\ Len(received) <= Len(sent)

PacketsInit == buf = <<>> /\ sent = <<>> /\ ppSrc = 0 /\ received = <<>>

\* set1, set2BE, set4BE, set8BE, and in little-endian order: val >> 8 k, cut to a byte.
setBE(n, val) == [k \in 1 .. n |-> Digit(val, n - k)]
setLE(n, val) == [k \in 1 .. n |-> Digit(val, k - 1)]
setUtf8String(str) == setBE(4, Len(str)) \o str

src(addr, k) == buf[addr + k + 1]

\* get1, get2BE, get4BE, get8BE: the bytes shifted to their places.
getBE(n, addr) == Value([k \in 0 .. (n - 1) |-> src(addr, n - 1 - k)], n)
getLE(n, addr) == Value([k \in 0 .. (n - 1) |-> src(addr, k)], n)

-----------------------------------------------------------------------------
(* The sender: the add operations of ExpandBuf.                                          *)

Add(f) ==
    /\ Len(sent) < MaxFields /\ received = <<>>
    /\ sent' = Append(sent, f)
    /\ UNCHANGED <<ppSrc, received>>

expandBufAdd(f) ==
    /\ f.kind \in Orders
    /\ buf' = buf \o IF f.kind = "BE" THEN setBE(f.width, f.value[1]) ELSE setLE(f.width, f.value[1])
    /\ Add(f)

expandBufAddUtf8String(f) ==
    /\ f.kind = "utf8"
    /\ buf' = buf \o setUtf8String(f.value)
    /\ Add(f)

-----------------------------------------------------------------------------
(* The receiver, which knows what fields to expect.                                      *)

next == sent[Len(received) + 1]
Expects(kinds) == Len(received) < Len(sent) /\ next.kind \in kinds
Took(n, value) ==
    /\ ppSrc' = ppSrc + n
    /\ received' = Append(received, value)
    /\ UNCHANGED <<buf, sent>>

readBE == Expects({"BE"}) /\ Took(next.width, getBE(next.width, ppSrc))
readLE == Expects({"LE"}) /\ Took(next.width, getLE(next.width, ppSrc))

TextAt(addr, n) == [k \in 1 .. n |-> src(addr, k - 1)]

skipUtf8String ==
    /\ Expects({"utf8"})
    /\ LET length == getBE(4, ppSrc)
       IN Took(4 + length, [length |-> length])

\* Mutant: as many characters as the buffer has room for, and none for the end.
WholeBuffer(length) == Min({length, BufLen})

copyLen(length) == IF length < BufLen THEN length ELSE BufLen - 1

\* Into a buffer of BufLen bytes; the cursor moves past what has not been copied as well.
readUtf8String ==
    /\ Expects({"utf8"})
    /\ LET length == getBE(4, ppSrc)
       IN Took(4 + length,
               [length |-> length, buf |-> Append(TextAt(ppSrc + 4, copyLen(length)), 0)])

readNewUtf8String ==
    /\ Expects({"utf8"})
    /\ LET length == getBE(4, ppSrc)
       IN Took(4 + length, [length |-> length, new |-> Append(TextAt(ppSrc + 4, length), 0)])

PacketsNext ==
    \/ \E f \in Fields : expandBufAdd(f) \/ expandBufAddUtf8String(f)
    \/ readBE \/ readLE \/ skipUtf8String \/ readUtf8String \/ readNewUtf8String

PacketsSpec == PacketsInit /\ [][PacketsNext]_packetVars

-----------------------------------------------------------------------------
(* Properties.                                                                           *)

\* The number of bytes of a field.
Size(f) == IF f.kind = "utf8" THEN 4 + Len(f.value) ELSE f.width

\* Where in the buffer the first n fields end.
EndOf(n) ==
    LET end[k \in 0 .. n] == IF k = 0 THEN 0 ELSE end[k - 1] + Size(sent[k])
    IN end[n]

\* Each field is received as it was sent, whatever its neighbours: numbers in all their
\* bytes, strings whole or cut to the room there is; and the cursor is then where the
\* next one begins, at the end behind the last.
ReceivedIsSent ==
    /\ ppSrc = EndOf(Len(received))
    /\ \A k \in DOMAIN received :
         LET f == sent[k]
             r == received[k]
         IN IF f.kind # "utf8" THEN r = f.value[1]
            ELSE /\ r.length = Len(f.value)
                 /\ "new" \in DOMAIN r => r.new = Append(f.value, 0)
                 /\ "buf" \in DOMAIN r => IsPrefix(Front(r.buf), f.value)

\* A string that is read into a buffer stays in it, its end included, and fills it if it
\* is too long.
StaysInBuffer ==
    \A k \in DOMAIN received :
       sent[k].kind = "utf8" /\ "buf" \in DOMAIN received[k] =>
         /\ Len(received[k].buf) <= BufLen /\ Last(received[k].buf) = 0
         /\ received[k].length >= BufLen => Len(received[k].buf) = BufLen

\* What one side of the debugger's connection writes the other reads, within its buffers.
PacketsSound == ReceivedIsSent /\ StaysInBuffer
=============================================================================
