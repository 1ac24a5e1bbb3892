------------------------------ MODULE IpUtils ------------------------------
(***************************************************************************)
(* iputils (src/internal/apisix/utils/iputils/ip.go): the client address  *)
(* a plugin sees, and the string-based address/range test Match.          *)
(*                                                                         *)
(* An address string is the sequence of its "."-separated parts; the      *)
(* empty string is <<>>.  A part is a number (its decimal text) or NaN    *)
(* (text that is no number); an IPv6 literal such as "::1" has no dot and *)
(* is the one part V6.  A range string is [addr, mask]: mask is the       *)
(* number after the "/", NoMask when there is no "/", and BadMask when    *)
(* the text after it is no number.                                         *)
(***************************************************************************)
EXTENDS Integers, Sequences, SequencesExt

NoAddr == <<>>

\* Parts that are no decimal number: any text, and an IPv6 literal.
NaN == -1
V6  == -2
V6Addr == <<V6>>

\* A range with no "/" and a malformed mask.
NoMask  == -1
BadMask == -2

(* ClientIP: the first X-Forwarded-For value up to its first comma, else  *)
(* X-Real-IP, else "".  xff is the header's lines; Peek returns the first.*)
ClientIP(xff, realip) ==
    IF xff # <<>> /\ Head(xff) # NoAddr THEN Head(xff) ELSE realip

(* strconv.ParseUint(s, 10, 8): a value above 255 is a range error that   *)
(* still returns 255; a non-number is a syntax error that returns 0.  The  *)
(* error is only printed.                                                  *)
ParseOctet(p) == IF p < 0 THEN 0 ELSE IF p > 255 THEN 255 ELSE p

(* Ip2Binary: strings.Split(ip, ".") (the empty string is one empty part) *)
(* and fmt.Sprintf("%08b") of each part, concatenated: digit k is bit     *)
(* 7 - (k-1) % 8 of part (k-1) \div 8 + 1, most significant first.        *)
Ip2Binary(a) ==
    LET parts == IF a = NoAddr THEN <<NaN>> ELSE a
    IN  [k \in 1..(8 * Len(parts)) |->
            (ParseOctet(parts[(k - 1) \div 8 + 1]) \div 2^(7 - ((k - 1) % 8))) % 2]

\* Fault model: the prefix compared one digit short.
MatchShortPrefix(ip, r) ==
    LET ipb  == Ip2Binary(ip)
        iprb == Ip2Binary(r.addr)
    IN  CASE r.mask = NoMask  -> IF ipb = iprb THEN "match" ELSE "nomatch"
          [] r.mask = BadMask -> "nomatch"
          [] r.mask > Len(ipb) \/ r.mask > Len(iprb) -> "panic"
          [] OTHER -> IF SubSeq(ipb, 1, r.mask - 1) = SubSeq(iprb, 1, r.mask - 1)
                      THEN "match" ELSE "nomatch"

(* Match: without a mask, the binary strings are equal; with one, their   *)
(* first masklen digits are.  ipb[0:masklen] past the string's end is a   *)
(* run-time panic (slice bounds out of range).                             *)
Match(ip, r) ==
    LET ipb  == Ip2Binary(ip)
        iprb == Ip2Binary(r.addr)
    IN  CASE r.mask = NoMask  -> IF ipb = iprb THEN "match" ELSE "nomatch"
          [] r.mask = BadMask -> "nomatch"
          [] r.mask > Len(ipb) \/ r.mask > Len(iprb) -> "panic"
          [] OTHER -> IF SubSeq(ipb, 1, r.mask) = SubSeq(iprb, 1, r.mask)
                      THEN "match" ELSE "nomatch"

(* The loops of ip-restriction and MatchRoute: the first range that       *)
(* matches (or panics) decides.                                            *)
RECURSIVE FirstHitFrom(_, _, _)
FirstHitFrom(ip, list, i) ==
    IF i > Len(list) THEN "nomatch"
    ELSE IF Match(ip, list[i]) # "nomatch" THEN Match(ip, list[i])
    ELSE FirstHitFrom(ip, list, i + 1)

FirstHit(ip, list) == FirstHitFrom(ip, list, 1)

-----------------------------------------------------------------------------
(* Reference: dotted IPv4 addresses and CIDR containment, by arithmetic   *)
(* on the octets rather than on digit strings.                             *)
IsIPv4(a) == Len(a) = 4 /\ \A i \in 1..4 : a[i] \in 0..255

InRange(a, r) ==
    /\ IsIPv4(a) /\ IsIPv4(r.addr)
    /\ IF r.mask = NoMask THEN a = r.addr
       ELSE LET full == r.mask \div 8
                rest == r.mask % 8
            IN  /\ r.mask \in 0..32
                /\ \A i \in 1..full : a[i] = r.addr[i]
                /\ rest > 0 => a[full + 1] \div 2^(8 - rest) = r.addr[full + 1] \div 2^(8 - rest)
=============================================================================
