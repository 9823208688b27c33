----------------------------- MODULE LogFilter -----------------------------
(***************************************************************************)
(* m1-net-log-filtering-system: CreateFilter builds a composite filter     *)
(* from configuration lines, then StreamProcessor reads log lines, keeps   *)
(* those whose address matches in a buffer and writes the buffer when it   *)
(* is full and at the end of the input.                                    *)
(*                                                                         *)
(* An address, a mask or a network is the set of the bits that are one, of *)
(* Width bits (32 in the code), bit 0 being the lowest: & is the           *)
(* intersection and a shift moves the bits. What parsing makes of a text   *)
(* is an address or NoAddress.                                             *)
(*                                                                         *)
(* The F in FInit, FNext, FSpec, FTypeOK and fvars tells them from those   *)
(* of GrpcTransfer, which sends on what the filter lets pass.              *)
(***************************************************************************)
EXTENDS Integers, Sequences

CONSTANTS Width,       \* bits of an address
          MaxFilters,  \* CompositeFilter::kMaxFilters
          BatchSize,   \* StreamProcessor's batch_size_
          ConfigAddress, \* the addresses configurations are written with
          LineAddress, \* the addresses that lines of the log begin with
          MaxLines,    \* bound: lines of the log
          NoAddress    \* no address, or text that is none

Bits == 0 .. Width - 1
Address == SUBSET Bits

ASSUME FilterAssumption ==
    /\ Width \in Nat /\ MaxFilters \in Nat
    /\ BatchSize \in Nat /\ MaxLines \in Nat
    /\ ConfigAddress \cup LineAddress \subseteq Address
    /\ NoAddress \notin ConfigAddress \cup LineAddress

VARIABLES pc,       \* "configure", "read", "flush", "end", "done", "refused"
          configs,  \* the configurations taken so far
          filters,  \* filters_ of the composite filter
          input,      \* the addresses of the lines read so far
          buffer,   \* the numbers of the lines in buffer_
          output,   \* the numbers of the lines written
          good      \* whether the output stream still takes anything

fvars == <<pc, configs, filters, input, buffer, output, good>>

Parsed == ConfigAddress \cup {NoAddress}

\* What a configuration can say; "malformed" is a FilterConfig that throws.
SubnetConfig == [type : {"subnet"}, addr : Parsed, prefix : -1 .. Width + 1]
RangeConfig == [type : {"range"}, left : Parsed, right : Parsed]
Config == SubnetConfig \cup RangeConfig \cup [type : {"malformed", "unknown"}]

-----------------------------------------------------------------------------
(* Filters.                                                                *)

ShiftLeft(a, n) == {b \in Bits : b - n \in a}

\* Of two numbers the smaller one: the highest bit in which they differ.
Less(a, b) == \E i \in b \ a : \A j \in Bits : j > i => (j \in a <=> j \in b)

\* Mutant: the code without the test for prefix 0, on a machine that takes
\* the distance of a shift modulo the width.
MaskByShiftAlone(prefix) == ShiftLeft(Bits, (Width - prefix) % Width)

\* The high bits of a network; a shift by the whole width is avoided.
MaskOf(prefix) == IF prefix = 0 THEN {} ELSE ShiftLeft(Bits, Width - prefix)

IsValidCIDRPrefix(prefix) == prefix >= 0 /\ prefix <= Width
IsValidRange(left, right) == ~Less(right, left)

\* SubnetFilter::Create and RangeFilter::Create: the filter, if there is one.
CreateSubnet(c) ==
    IF c.addr = NoAddress \/ ~IsValidCIDRPrefix(c.prefix) THEN {}
    ELSE {[type |-> "subnet", mask |-> MaskOf(c.prefix),
           network |-> c.addr \cap MaskOf(c.prefix)]}

CreateRange(c) ==
    IF c.left = NoAddress \/ c.right = NoAddress THEN {}
    ELSE IF ~IsValidRange(c.left, c.right) THEN {}
    ELSE {[type |-> "range", left |-> c.left, right |-> c.right]}

FilterFor(c) == CASE c.type = "subnet" -> CreateSubnet(c)
                  [] c.type = "range" -> CreateRange(c)
                  [] OTHER -> {}

Clamp(x, lo, hi) == IF Less(x, lo) THEN lo ELSE IF Less(hi, x) THEN hi ELSE x

MatchesOne(f, ip) ==
    IF f.type = "subnet" THEN ip \cap f.mask = f.network
    ELSE ip = Clamp(ip, f.left, f.right)

Matches(ip) == \E i \in DOMAIN filters : MatchesOne(filters[i], ip)

-----------------------------------------------------------------------------

FInit ==
    /\ pc = "configure"
    /\ configs = <<>> /\ filters = <<>>
    /\ input = <<>> /\ buffer = <<>> /\ output = <<>>
    /\ good = TRUE

\* One turn of CreateFilter's loop: a bad configuration, and a filter too
\* many, throw.
AddFilter(c) ==
    /\ pc = "configure"
    /\ Len(filters) < MaxFilters
    /\ \E f \in FilterFor(c) : filters' = Append(filters, f)
    /\ configs' = Append(configs, c)
    /\ UNCHANGED <<pc, input, buffer, output, good>>

Refuse(c) ==
    /\ pc = "configure"
    /\ FilterFor(c) = {} \/ Len(filters) >= MaxFilters
    /\ pc' = "refused"
    /\ UNCHANGED <<configs, filters, input, buffer, output, good>>

StartProcess ==
    /\ pc = "configure"
    /\ pc' = "read"
    /\ UNCHANGED <<configs, filters, input, buffer, output, good>>

\* Mutant: the buffer is only written when a line is added beyond its size.
ReadLineLate(ip) ==
    /\ pc = "read"
    /\ Len(input) < MaxLines
    /\ input' = Append(input, ip)
    /\ buffer' = IF ip # NoAddress /\ Matches(ip) THEN Append(buffer, Len(input')) ELSE buffer
    /\ pc' = IF Len(buffer') > BatchSize THEN "flush" ELSE "read"
    /\ UNCHANGED <<configs, filters, output, good>>

\* One turn of Process's loop, up to the write.
ReadLine(ip) ==
    /\ pc = "read"
    /\ Len(input) < MaxLines
    /\ input' = Append(input, ip)
    /\ buffer' = IF ip # NoAddress /\ Matches(ip) THEN Append(buffer, Len(input')) ELSE buffer
    /\ pc' = IF Len(buffer') >= BatchSize THEN "flush" ELSE "read"
    /\ UNCHANGED <<configs, filters, output, good>>

EndOfInput ==
    /\ pc = "read"
    /\ pc' = IF buffer # <<>> THEN "end" ELSE "done"
    /\ UNCHANGED <<configs, filters, input, buffer, output, good>>

\* FlushBuffer: of a stream that is good the first n lines are taken, and it
\* is not good any more unless all were; the others are lost with the buffer.
FlushBuffer ==
    /\ pc \in {"flush", "end"}
    /\ \E n \in IF good THEN 0 .. Len(buffer) ELSE {0} :
         /\ output' = output \o SubSeq(buffer, 1, n)
         /\ good' = (good /\ n = Len(buffer))
    /\ buffer' = <<>>
    /\ pc' = IF pc = "end" THEN "done" ELSE "read"
    /\ UNCHANGED <<configs, filters, input>>

Over == pc \in {"done", "refused"} /\ UNCHANGED fvars

FNext ==
    \/ \E c \in Config : AddFilter(c) \/ Refuse(c)
    \/ StartProcess
    \/ \E ip \in LineAddress \cup {NoAddress} : ReadLine(ip)
    \/ EndOfInput \/ FlushBuffer \/ Over

FSpec == FInit /\ [][FNext]_fvars

-----------------------------------------------------------------------------
(* Properties.                                                             *)

Filter == [type : {"subnet"}, mask : Address, network : Address]
          \cup [type : {"range"}, left : Address, right : Address]

FTypeOK ==
    /\ pc \in {"configure", "read", "flush", "end", "done", "refused"}
    /\ configs \in Seq(Config) /\ filters \in Seq(Filter)
    /\ input \in Seq(LineAddress \cup {NoAddress})
    /\ buffer \in Seq(1 .. MaxLines) /\ output \in Seq(1 .. MaxLines)
    /\ good \in BOOLEAN

\* What a configuration means: the addresses with the same first bits, or
\* those from one to the other.
Means(c, ip) ==
    \/ c.type = "subnet"
       /\ \A b \in Bits : b >= Width - c.prefix => (b \in ip <=> b \in c.addr)
    \/ c.type = "range" /\ ~Less(ip, c.left) /\ ~Less(c.right, ip)

\* The filter CreateFilter makes matches an address exactly when one of its
\* configurations means it, prefixes 0 and 32 and single addresses included,
\* and never has a configuration that means nothing. (Filters are complete
\* before the first line is read.)
FilterMeaning ==
    /\ FTypeOK
    /\ Len(configs) <= MaxFilters
    /\ pc = "configure" =>
         /\ \A ip \in Address :
              Matches(ip) <=> \E i \in DOMAIN configs : Means(configs[i], ip)
         /\ \A i \in DOMAIN configs : \E ip \in Address : Means(configs[i], ip)

\* The numbers of the lines read that a configuration means.
WantedLines ==
    {n \in DOMAIN input : /\ input[n] # NoAddress
                         /\ \E i \in DOMAIN configs : Means(configs[i], input[n])}

Written == {output[i] : i \in DOMAIN output}
Buffered == {buffer[i] : i \in DOMAIN buffer}

\* Each wanted line is written once and in order, those not yet written are
\* in the buffer, which never reaches a batch between two lines; a stream that
\* stopped taking lines has the first of them and nothing after a gap.
OutputExact ==
    /\ LET lines == output \o buffer
       IN  \A i, j \in DOMAIN lines : i < j => lines[i] < lines[j]
    /\ Written \cup Buffered \subseteq WantedLines
    /\ good => WantedLines \subseteq Written \cup Buffered
    /\ \A n \in WantedLines \ Written, i \in DOMAIN output : output[i] < n
    /\ pc = "read" /\ BatchSize > 0 => Len(buffer) < BatchSize
    /\ pc = "done" => buffer = <<>>
=============================================================================
