---------------------------- MODULE HelloMessages ----------------------------
(***************************************************************************)
(* ClientHello, ServerHello, HelloRetryRequest and EncryptedExtensions on  *)
(* the wire (hello.go, hello_retry.go, auth_messages.go).  A message is    *)
(* encoded as the ordered list of the extensions that are present and      *)
(* their values; a parser returns the error it fails with, or the message. *)
(* Extensions carry the name of the field they encode.  Bytes and lengths  *)
(* are left out, what decides presence, order and acceptance is kept.      *)
(***************************************************************************)
EXTENDS Naturals, Sequences, FiniteSetsExt

None == ""
Has(list, x) == x \in Range(list)

(* appendOrderedExtensions and orderedExtensionValue: the fields that are  *)
(* not at their absent value, in the given order.  An extension keeps its  *)
(* number in that order, so the list has gaps where one is absent.         *)
Encode(m, order, absent) ==
    LET present == {i \in DOMAIN order : m[order[i]] # absent[order[i]]}
        exts    == [i \in present |-> order[i]]
    IN  [exts |-> exts, values |-> [f \in Range(exts) |-> m[f]]]

Decode(b, absent) ==
    [f \in DOMAIN absent |-> IF Has(b.exts, f) THEN b.values[f] ELSE absent[f]]

(* parseOrderedExtensionsView: no extension twice.                         *)
Distinct(exts) == \A i, j \in DOMAIN exts : i # j => exts[i] # exts[j]

-----------------------------------------------------------------------------
NoECH == [typ |-> "none", config |-> None, first |-> FALSE, inner |-> <<>>]

NoClientHello ==
    [name |-> None, groups |-> <<>>, clientTypes |-> <<>>, serverTypes |-> <<>>,
     alpn |-> <<>>, limit |-> 0, cookie |-> <<>>, shares |-> <<>>, pha |-> FALSE,
     tickets |-> <<>>, cid |-> <<>>, rrc |-> FALSE, early |-> FALSE,
     ech |-> NoECH, meta |-> FALSE, pskDHE |-> FALSE, ids |-> <<>>]

ClientHelloOrder ==
    <<"name", "groups", "clientTypes", "serverTypes", "alpn", "limit", "cookie",
      "shares", "pha", "tickets", "cid", "rrc", "early", "ech", "meta",
      "pskDHE", "ids">>

(* clientHello.marshal: psk_key_exchange_modes is written for a hello that *)
(* carries a PSK or asks for the modes, and pre_shared_key comes last.     *)
marshal(hello) ==
    [random |-> hello.random, suites |-> hello.suites,
     ext |-> Encode([hello EXCEPT !.pskDHE = @ \/ hello.ids # <<>>],
                    ClientHelloOrder, NoClientHello)]

(* Every share belongs to a group, in the order of the groups.             *)
OrderedSubset(shares, groups) ==
    \E at \in [DOMAIN shares -> DOMAIN groups] :
        /\ \A i \in DOMAIN shares : groups[at[i]] = shares[i].group
        /\ \A i, j \in DOMAIN shares : i < j => at[i] < at[j]

ClientHelloError(suites, exts, h) ==
    CASE suites = <<>> -> "decode_error"
      [] ~Distinct(exts) -> "illegal_parameter"
      [] (h.groups = <<>>) # (h.shares = <<>>) -> "missing_extension"
      [] ~OrderedSubset(h.shares, h.groups) -> "illegal_parameter"
      [] Has(exts, "ids") /\ exts[Max(DOMAIN exts)] # "ids" -> "protocol_error"
      [] Has(exts, "ids") /\ ~Has(exts, "pskDHE") -> "missing_extension"
      [] h.early /\ h.ids = <<>> -> "protocol_error"
      [] h.ids = <<>> /\ h.groups = <<>> -> "missing_extension"
      [] OTHER -> None

Parsed(error, m) == [error |-> error, m |-> m]

parseClientHello(b) ==
    LET h == Decode(b.ext, NoClientHello)
    IN  Parsed(ClientHelloError(b.suites, b.ext.exts, h),
               [f \in DOMAIN NoClientHello \cup {"random", "suites"} |->
                    CASE f = "random" -> b.random
                      [] f = "suites" -> b.suites
                      [] OTHER -> h[f]])

-----------------------------------------------------------------------------
(* The ECH confirmation of a ServerHello is part of its random.            *)
NoServerHello == [group |-> None, cid |-> <<>>, rrc |-> FALSE, index |-> 0]

marshalServerHello(sh) ==
    [typ |-> "ServerHello", suite |-> sh.suite, confirmation |-> sh.confirmation,
     ext |-> Encode(sh, <<"group", "cid", "rrc", "index">>, NoServerHello)]

parseServerHello(b) ==
    LET m == Decode(b.ext, NoServerHello)
    IN  Parsed(IF ~Distinct(b.ext.exts) THEN "illegal_parameter"
               ELSE IF m.group = None THEN "missing_extension" ELSE None,
               [suite |-> b.suite, confirmation |-> b.confirmation,
                group |-> m.group, cid |-> m.cid, rrc |-> m.rrc,
                index |-> m.index])

NoHelloRetryRequest == [cookie |-> <<>>, group |-> None, confirmation |-> <<>>]

marshalHelloRetryRequest(hrr) ==
    [typ |-> "HelloRetryRequest", suite |-> hrr.suite,
     ext |-> Encode(hrr, <<"cookie", "group", "confirmation">>,
                    NoHelloRetryRequest)]

parseHelloRetryRequest(b) ==
    LET m == Decode(b.ext, NoHelloRetryRequest)
    IN  Parsed(IF ~Distinct(b.ext.exts) THEN "illegal_parameter"
               ELSE IF m.cookie = <<>> /\ m.group = None THEN "protocol_error"
               ELSE None,
               [suite |-> b.suite, cookie |-> m.cookie, group |-> m.group,
                confirmation |-> m.confirmation])

-----------------------------------------------------------------------------
NoEncryptedExtensions ==
    [alpn |-> None, clientType |-> <<>>, serverType |-> <<>>, early |-> FALSE,
     tickets |-> <<>>, retry |-> FALSE, meta |-> FALSE, limit |-> 0]

marshalEncryptedExtensions(ee) ==
    [typ |-> "EncryptedExtensions",
     ext |-> Encode(ee, <<"alpn", "clientType", "serverType", "early", "tickets",
                          "retry", "meta", "limit">>, NoEncryptedExtensions)]

parseEncryptedExtensions(b) ==
    Parsed(IF ~Distinct(b.ext.exts) THEN "illegal_parameter" ELSE None,
           Decode(b.ext, NoEncryptedExtensions))
==============================================================================
