------------------------------ MODULE DnsReply ------------------------------
(***************************************************************************)
(* The reply to one query, do_lookup() and encode() of dnsproxy.rs: which  *)
(* of the addresses the resolver gives a client is told, in which order,   *)
(* and as which bytes.                                                     *)
(*                                                                         *)
(* An address is the sequence of its octets; only the lengths of the two   *)
(* families differ from the code, and the octets a run uses are those that *)
(* could be taken for tags.                                                *)
(***************************************************************************)
EXTENDS Integers, SequencesExt

CONSTANTS
  Octet,        \* the octets of addresses
  V4Len, V6Len, \* 4 and 16
  MaxRecords,   \* MAX_RECORDS
  MaxFound      \* bound on what the resolver returns

TAG_IPV4 == 4
TAG_IPV6 == 6

V4 == [1 .. V4Len -> Octet]
V6 == [1 .. V6Len -> Octet]
IpAddr == V4 \cup V6

ASSUME DnsReplyAssumption == /\ V4Len \in Nat /\ V6Len \in Nat /\ V4Len # V6Len
                             /\ Octet \subseteq 0 .. 255
                             /\ MaxRecords \in 0 .. 255 /\ MaxFound \in Nat

VARIABLES
  filter,   \* "A", "AAAA" or "ANY"
  found,    \* what the resolver has returned so far
  addrs,    \* the addresses kept of it
  reply     \* the bytes sent; <<>> before that

vars == <<filter, found, addrs, reply>>

Is4(ip) == Len(ip) = V4Len
Is6(ip) == Len(ip) = V6Len

Accepts(ip) == \/ filter = "ANY"
               \/ filter = "A" /\ Is4(ip)
               \/ filter = "AAAA" /\ Is6(ip)

TypeOK == /\ filter \in {"A", "AAAA", "ANY"}
          /\ found \in Seq(IpAddr) /\ Len(found) <= MaxFound
          /\ addrs \in Seq(IpAddr) /\ IsInjective(addrs)
          /\ reply \in Seq(0 .. 255)

Init == /\ filter \in {"A", "AAAA", "ANY"}
        /\ found = <<>> /\ addrs = <<>> /\ reply = <<>>

(* Some definitions are preceded by a variant of them with a mistake in    *)
(* it: the properties are tried on these as well.                          *)

(* Drops only repetitions in a row, as Vec::dedup does.                    *)
KeepUnlessLast(ip) == IF addrs # <<>> /\ Last(addrs) = ip THEN addrs ELSE Append(addrs, ip)

Keep(ip) == IF ip \in Range(addrs) THEN addrs ELSE Append(addrs, ip)

(* The loop of do_lookup().                                                *)
TakeFound(ip) ==
  /\ reply = <<>> /\ Len(found) < MaxFound
  /\ found' = Append(found, ip)
  /\ addrs' = Keep(ip)
  /\ UNCHANGED <<filter, reply>>

Take(list) == SubSeq(list, 1, IF Len(list) < MaxRecords THEN Len(list) ELSE MaxRecords)

(* What a filter of an iterator leaves: those of list that are in keep.    *)
Filtered(list, keep) ==
  LET left[n \in 0 .. Len(list)] ==
        IF n = 0 THEN <<>>
        ELSE IF list[n] \in keep THEN Append(left[n - 1], list[n])
        ELSE left[n - 1]
  IN  left[Len(list)]

Accepted6 == {ip \in IpAddr : Is6(ip) /\ Accepts(ip)}
Accepted4 == {ip \in IpAddr : Is4(ip) /\ Accepts(ip)}

(* Cuts the list before it is sorted by family.                            *)
SelectedOfFirst ==
  LET first == Take(Filtered(addrs, Accepted6 \cup Accepted4))
  IN  Filtered(first, Accepted6) \o Filtered(first, Accepted4)

(* IPv6 first, and no more than MAX_RECORDS.                               *)
Selected == Take(Filtered(addrs, Accepted6) \o Filtered(addrs, Accepted4))

Record(ip) == <<IF Is4(ip) THEN TAG_IPV4 ELSE TAG_IPV6>> \o ip

(* The count, and behind it record after record.                           *)
Encoded(list) ==
  LET buffer[n \in 0 .. Len(list)] ==
        IF n = 0 THEN <<Len(list)>> ELSE buffer[n - 1] \o Record(list[n])
  IN  buffer[Len(list)]

(* handle_query() returns; a failed lookup has found nothing.              *)
Encode == /\ reply = <<>>
          /\ reply' = Encoded(Selected)
          /\ UNCHANGED <<filter, found, addrs>>

Next == (\E ip \in IpAddr : TakeFound(ip)) \/ Encode

Spec == Init /\ [][Next]_vars

-----------------------------------------------------------------------------
(* How a client reads a reply at the front of what it has received: a      *)
(* count, and so many records, each as long as its tag says.               *)
ReadReply(bytes) ==
  LET count == Head(bytes)
      end[n \in 0 .. count] ==   \* where record n ends
        IF n = 0 THEN 1
        ELSE end[n - 1] + 1 + (IF bytes[end[n - 1] + 1] = TAG_IPV4 THEN V4Len ELSE V6Len)
  IN  [records |-> [n \in 1 .. count |-> SubSeq(bytes, end[n - 1] + 2, end[n])],
       rest    |-> SubSeq(bytes, end[count] + 1, Len(bytes))]

Accepted  == {ip \in Range(found) : Accepts(ip)}
First(ip) == CHOOSE i \in DOMAIN found :
               found[i] = ip /\ \A j \in 1 .. i - 1 : found[j] # ip

(* What a client should try before what: IPv6 first, and within a family   *)
(* as the resolver says.                                                   *)
Before(a, b) == (Is6(a) /\ Is4(b)) \/ (Len(a) = Len(b) /\ First(a) < First(b))

(* The client reads the best of the addresses it accepts, at most          *)
(* MAX_RECORDS, each once and the better before the worse.  And a reply    *)
(* says itself where it ends, whatever octets it holds: on a stream, where *)
(* replies run together, the next one is what is left.                     *)
ReplyIsTheBest ==
  reply # <<>> =>
    LET next    == Encoded(addrs)
        read    == ReadReply(reply \o next)
        records == read.records
    IN  /\ Len(records) = Min({MaxRecords, Cardinality(Accepted)})
        /\ Range(records) \subseteq Accepted
        /\ \A i \in DOMAIN records : \A ip \in Accepted \ Range(SubSeq(records, 1, i)) :
             Before(records[i], ip)
        /\ read.rest = next
=============================================================================
