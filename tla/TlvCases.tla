------------------------------ MODULE TlvCases ------------------------------
(* The lines of ChatRelay, and the parsers of Tlv on every short payload,  *)
(* which grows byte by byte.                                               *)
EXTENDS ChatRelay

CONSTANTS
  Alphabets,  \* the sets of bytes, one of which a payload is made of
  MaxPayload  \* bound: the length of the payloads

ASSUME CasesAssumption == Alphabets \subseteq SUBSET Uint8 /\ MaxPayload \in Nat

RawLine == [kind : {"raw"}, bytes : Alphabets]

Init ==
  \/ RelayInit
  \/ stage = "raw" /\ typed \in RawLine /\ payload = << >> /\ shown = Nothing

Grow ==
  /\ stage = "raw"
  /\ Len(payload) < MaxPayload
  /\ \E b \in typed.bytes : payload' = Append(payload, b)
  /\ UNCHANGED <<stage, typed, shown>>

Next == RelayNext \/ Grow

Spec == Init /\ [][Next]_vars

(* c is a set of offsets that holds ptr and, with the offset of a TLV, the *)
(* one where that TLV ends, up to the end of p.                            *)
IsCut(p, ptr, c) ==
  /\ ptr \in c
  /\ \A o \in c \ {Len(p)} : o + 2 =< Len(p) /\ o + 2 + p[o + 2] \in c

Cuts(p, ptr) == {c \in SUBSET (ptr .. Len(p)) : IsCut(p, ptr, c)}

(* The TLVs of what follows ptr in p, if that can be cut, and those of them *)
(* that have a tag.                                                         *)
Tlvs(p, ptr) == {o \in ptr .. Len(p) - 1 : \A c \in Cuts(p, ptr) : o \in c}
TlvsOf(p, ptr, tag) == {o \in Tlvs(p, ptr) : p[o + 1] = tag}

(* p is a row of whole TLVs in which each tag of fields occurs, never with *)
(* a value that is too long.                                               *)
Acceptable(fields, p) ==
  /\ Cuts(p, 0) # {}
  /\ \A tag \in DOMAIN fields :
       /\ TlvsOf(p, 0, tag) # {}
       /\ \A o \in TlvsOf(p, 0, tag) : p[o + 2] =< fields[tag]

(* result is what a parser for fields should make of p: of several values  *)
(* of a tag it is the last.                                                *)
IsParseOf(result, fields, p) ==
  /\ result.ok <=> Acceptable(fields, p)
  /\ result.ok =>
       /\ DOMAIN result.found = DOMAIN fields
       /\ \A tag \in DOMAIN fields :
            LET last == Max(TlvsOf(p, 0, tag))
            IN result.found[tag] = SubSeq(p, last + 3, last + 2 + p[last + 2])

(***************************************************************************)
(* parse_register_request and parse_login_request accept exactly the       *)
(* payloads that are a row of whole TLVs in which no known value is too    *)
(* long and no required one missing, and return the last value of a tag;   *)
(* what the builders make of these values parses to the same values.       *)
(***************************************************************************)
ParsesTlvs ==
  LET result == parse_register_request(payload)
  IN stage = "raw" =>
     /\ IsParseOf(result, CredentialFields, payload)
     /\ result.ok =>
          LET request == build_credentials(result.found[TAG_USERNAME],
                                           result.found[TAG_PASSWORD])
          IN request.ok /\ parse_register_request(request.payload) = result
     /\ result = parse_login_request(payload)

(* user is what a parser of a response should leave of p.  Its id is that  *)
(* of the last value in network byte order if all the values of the id     *)
(* have four bytes, and its memory is intact as long as none of a row of   *)
(* TLVs has more.                                                          *)
IsUserOf(user, p) ==
  LET ids == TlvsOf(p, 0, TAG_USER_ID)
      names == TlvsOf(p, 0, TAG_USERNAME)
  IN /\ user.user_id # Smashed => (user.ok <=> Acceptable(UserFields, p))
     /\ Cuts(p, 0) # {} /\ (\A o \in names : p[o + 2] =< MAX_USERNAME_SIZE) =>
          (user.user_id = Smashed <=> \E o \in ids : p[o + 2] > 4)
     /\ user.ok /\ (\A o \in ids : p[o + 2] = 4) =>
          /\ \A i \in 1 .. 4 : user.user_id[i] = p[Max(ids) + 7 - i]
          /\ user.username =
               SubSeq(p, Max(names) + 3, Max(names) + 2 + p[Max(names) + 2])

(***************************************************************************)
(* parse_register_response and parse_login_response take the id and the    *)
(* name from a payload whose ids have the four bytes of a uint32_t, and    *)
(* accept what they should as long as the memory of the id is intact; an   *)
(* id that is longer is written over the user, however the payload goes on.*)
(***************************************************************************)
ParsesUsers ==
  stage = "raw" =>
    /\ IsUserOf(parse_register_response(payload), payload)
    /\ IsUserOf(parse_login_response(payload), payload)

=============================================================================
