--------------------------- MODULE ServiceMethods ---------------------------
(***************************************************************************)
(* Service method ids and attributes:                                      *)
(*  - MethodToMethodProperty of src/modules/service/internal/types/        *)
(*    parser.go turns the index and the attributes of a method of an IDL   *)
(*    file into a MethodProperty, with int16 ids and the output privacy    *)
(*    and output cached enums parsed from their attribute strings;         *)
(*  - the call command of src/modules/service/client/cli/tx.go builds a    *)
(*    service request naming a method by an int16 id read from a flag.     *)
(* Ids are IdBits-bit signed integers (16 in the code).  The enum parsers  *)
(* (OutputPrivacyEnumFromString, OutputCachedEnumFromString) are outside   *)
(* this repository; they accept exactly the names of their enum, and the   *)
(* model takes those sets as constants.  Names and descriptions are data   *)
(* no property looks at.                                                   *)
(***************************************************************************)
EXTENDS Integers

CONSTANTS
  IdBits,        \* width of a method id (int16)
  PrivacyNames,  \* the strings OutputPrivacyEnumFromString accepts
  CachedNames,   \* the strings OutputCachedEnumFromString accepts
  NoPrivacy,     \* default output privacy
  NoCached,      \* default output cached
  BadAddr,       \* a --provider that is not bech32
  BadCoins,      \* a --service-fee ParseCoins refuses
  BadHex         \* a --request-data that is not hex

ASSUME NoPrivacy \in PrivacyNames /\ NoCached \in CachedNames

\* the attribute keys MethodToMethodProperty reads
OutputPrivacy == "output_privacy"
OutputCached == "output_cached"

\* int16(x) in Go: keep the low IdBits bits, read them as two's complement
ToInt16(x) ==
  LET w == 2 ^ IdBits
  IN  ((x + w \div 2) % w) - w \div 2

\* a Go map lookup: the value, or "" when the key is absent
Get(attrs, k) == IF k \in DOMAIN attrs THEN attrs[k] ELSE ""

\* the MethodProperty, or the zero one returned with an error
Property(err, arg, id, opp, opc) ==
  [err |-> err, arg |-> arg, id |-> id, privacy |-> opp, cached |-> opc]

ZeroProperty(err, arg) == Property(err, arg, 0, "", "")

(* (mutant) each attribute parsed whether present or not *)
MethodToMethodPropertyNoPresenceCheck(index, attrs) ==
  LET p == Get(attrs, OutputPrivacy)
      c == Get(attrs, OutputCached)
  IN  CASE p \notin PrivacyNames
             -> ZeroProperty("ErrInvalidOutputPrivacyEnum", p)
        [] c \notin CachedNames
             -> ZeroProperty("ErrInvalidOutputPrivacyEnum", c)
        [] OTHER -> Property("none", "", ToInt16(index), p, c)

(***************************************************************************)
(* MethodToMethodProperty: defaults NoPrivacy and NoCached; a present      *)
(* attribute that does not parse returns the zero property and an error    *)
(* wrapping the attribute's value, in the order privacy, cached; the id is *)
(* int16(index).                                                           *)
(***************************************************************************)
MethodToMethodProperty(index, attrs) ==
  LET hasP == OutputPrivacy \in DOMAIN attrs
      hasC == OutputCached \in DOMAIN attrs
      p == Get(attrs, OutputPrivacy)
      c == Get(attrs, OutputCached)
  IN  CASE hasP /\ p \notin PrivacyNames
             -> ZeroProperty("ErrInvalidOutputPrivacyEnum", p)
        [] hasC /\ c \notin CachedNames
             -> ZeroProperty("ErrInvalidOutputPrivacyEnum", c)
        [] OTHER -> Property("none", "", ToInt16(index),
                             IF hasP THEN p ELSE NoPrivacy,
                             IF hasC THEN c ELSE NoCached)

(***************************************************************************)
(* The call command (GetCmdSvcCall): --method-id is read as an int and     *)
(* converted to int16; the provider, the service fee and the request data  *)
(* are parsed in that order and the first that fails is returned.          *)
(***************************************************************************)
SvcCall(methodFlag, provider, fee, data) ==
  LET methodID == ToInt16(methodFlag)
  IN  CASE provider = BadAddr -> [err |-> "bech32", methodID |-> 0]
        [] fee = BadCoins     -> [err |-> "coins", methodID |-> 0]
        [] data = BadHex      -> [err |-> "hex", methodID |-> 0]
        [] OTHER              -> [err |-> "none", methodID |-> methodID]

(***************************************************************************)
(* Reference definitions, from what the names promise: a method's id is    *)
(* its index, an attribute that is given is taken, one that is missing     *)
(* takes its default, and an error says which attribute was wrong.         *)
(***************************************************************************)
MethodPropertyRef(index, attrs) ==
  LET badP == OutputPrivacy \in DOMAIN attrs /\ attrs[OutputPrivacy] \notin PrivacyNames
      badC == OutputCached \in DOMAIN attrs /\ attrs[OutputCached] \notin CachedNames
  IN  CASE badP -> ZeroProperty("ErrInvalidOutputPrivacyEnum", attrs[OutputPrivacy])
        [] badC -> ZeroProperty("ErrInvalidOutputCachedEnum", attrs[OutputCached])
        [] OTHER ->
             Property("none", "", index,
                      IF OutputPrivacy \in DOMAIN attrs THEN attrs[OutputPrivacy] ELSE NoPrivacy,
                      IF OutputCached \in DOMAIN attrs THEN attrs[OutputCached] ELSE NoCached)
=============================================================================
