----------------------------- MODULE Blocklist -----------------------------
(***************************************************************************)
(* The two blocklists of outbound addresses: numeric ranges over what a    *)
(* name resolved to (src/outbound.rs), and regular expressions over the    *)
(* host as it is written (is_blocked_host, sql/control_plane.sql).  The    *)
(* first says that it mirrors the second "exactly, so the two blocklists   *)
(* cannot drift"; ControlPlane_proofs holds the theorems about that.  An   *)
(* address is written as the standard notation writes it, without leading  *)
(* zeros.                                                                  *)
(***************************************************************************)
EXTENDS Integers, Sequences

Octet == {n \in Nat : n < 256}
Ipv4 == [1..4 -> Octet]
Segment == {n \in Nat : n < 65536}

is_blocked_ipv4(o) ==
  \/ o[1] \in {0, 10, 127}
  \/ o[1] = 169 /\ o[2] = 254
  \/ o[1] = 172 /\ o[2] \in 16..31
  \/ o[1] = 192 /\ o[2] = 168
  \/ o[1] = 192 /\ o[2] = 0 /\ o[3] \in {0, 2}
  \/ o[1] = 198 /\ o[2] \in {18, 19}
  \/ o[1] = 100 /\ o[2] \in 64..127
  \/ o[1] >= 224

\* The last test of is_blocked_ip: (first & 0xfe00) == 0xfc00 || (first & 0xffc0) == 0xfe80
is_blocked_segment(first) == first \div 512 = 126 \/ first \div 64 = 1018

----------------------------------------------------------------------------
(* Regular expressions: a pattern is a sequence of digit classes *)

Decimal(n) == IF n < 10 THEN <<n>>
              ELSE IF n < 100 THEN <<n \div 10, n % 10>>
              ELSE <<n \div 100, (n \div 10) % 10, n % 10>>

Hex4(n) == <<n \div 4096, (n \div 256) % 16, (n \div 16) % 16, n % 16>>

Matches1(d, a) == Len(d) = 1 /\ d[1] \in a
Matches2(d, a, b) == Len(d) = 2 /\ d[1] \in a /\ d[2] \in b
Matches3(d, a, b, c) == Len(d) = 3 /\ d[1] \in a /\ d[2] \in b /\ d[3] \in c

\* The IPv4 literals of is_blocked_host, after the spellings it blocks outright:
\* one that begins with a zero is taken for octal.
is_blocked_host(o) ==
  LET d(i) == Decimal(o[i])
  IN \/ Matches1(d(1), {0}) \/ Matches2(d(1), {1}, {0}) \/ Matches3(d(1), {1}, {2}, {7})
     \/ Matches3(d(1), {1}, {6}, {9}) /\ Matches3(d(2), {2}, {5}, {4})
     \/ /\ Matches3(d(1), {1}, {7}, {2})
        /\ Matches2(d(2), {1}, 6..9) \/ Matches2(d(2), {2}, 0..9) \/ Matches2(d(2), {3}, 0..1)
     \/ Matches3(d(1), {1}, {9}, {2}) /\ Matches3(d(2), {1}, {6}, {8})
     \/ Matches3(d(1), {1}, {9}, {2}) /\ Matches1(d(2), {0}) /\ Matches1(d(3), {0, 2})
     \/ Matches3(d(1), {1}, {9}, {8}) /\ Matches2(d(2), {1}, {8, 9})
     \/ /\ Matches3(d(1), {1}, {0}, {0})
        /\ \/ Matches2(d(2), {6}, 4..9) \/ Matches2(d(2), 7..9, 0..9)
           \/ Matches3(d(2), {1}, 0..1, 0..9) \/ Matches3(d(2), {1}, {2}, 0..7)
     \/ Matches3(d(1), {2}, {2}, 4..9) \/ Matches3(d(1), {2}, 3..5, 0..9)
     \/ o = [i \in 1..4 |-> 255]

\* ^f[cd][0-9a-f]{2}: and ^fe[89ab][0-9a-f]: over the first group of an IPv6 address;
\* a group of four hexadecimal digits does not begin with a zero.
blocks_group(first) ==
  LET d == Hex4(first)
  IN \/ d[1] = 15 /\ d[2] \in {12, 13}
     \/ d[1] = 15 /\ d[2] = 14 /\ d[3] \in 8..11

=============================================================================
