--------------------------- MODULE MCServiceMethods ---------------------------
(* Every method index below MaxMethods, every attribute map over the two   *)
(* keys with a known, an unknown or no value, and every call command with  *)
(* a --method-id from -1 to one past 2^IdBits and each parse passing or    *)
(* failing, as the input of one conversion.                                *)
EXTENDS ServiceMethods

CONSTANTS MaxMethods, BadName, GoodAddr, GoodCoins, GoodHex

VARIABLES index, attrs, flag, provider, fee, data

mcvars == <<index, attrs, flag, provider, fee, data>>

\* --method-id values: a negative one, the whole id range, and beyond it
FlagValues == -1 .. 2 ^ IdBits + 1

AttrValues == PrivacyNames \cup CachedNames \cup {BadName}

AttrMaps ==
  UNION {[keys -> AttrValues] : keys \in SUBSET {OutputPrivacy, OutputCached}}

Init ==
  /\ index \in 0 .. MaxMethods - 1
  /\ attrs \in AttrMaps
  /\ flag \in FlagValues
  /\ provider \in {GoodAddr, BadAddr}
  /\ fee \in {GoodCoins, BadCoins}
  /\ data \in {GoodHex, BadHex}

Next == UNCHANGED mcvars

Spec == Init /\ [][Next]_mcvars

Result == MethodToMethodProperty(index, attrs)
Ref == MethodPropertyRef(index, attrs)
Call == SvcCall(flag, provider, fee, data)

\* MethodToMethodProperty succeeds exactly when the reference does, and
\* then its id is the method's index and each enum is the attribute given
\* or the default: missing attributes are not parsed, present ones are.
MethodPropertyMatchesReference ==
  /\ (Result.err = "none") <=> (Ref.err = "none")
  /\ Result.err = "none" => Result = Ref

\* An attribute that does not parse is reported with the error of that
\* attribute: an unknown output_cached value as ErrInvalidOutputCachedEnum.
ErrorNamesFailingAttribute == Result.err = Ref.err

\* The request the call command builds names the method whose id was
\* given with --method-id.
CallTargetsNamedMethod ==
  Call.err = "none" => Call.methodID = flag
=============================================================================
