CONSTANTS
  IdBits = 4
  PrivacyNames = {"NoPrivacy", "PubKeyEncryption"}
  CachedNames = {"NoCached", "OffChainCached"}
  NoPrivacy = "NoPrivacy"
  NoCached = "NoCached"
  BadName = "Unknown"
  BadAddr = BadAddr
  GoodAddr = GoodAddr
  BadCoins = BadCoins
  GoodCoins = GoodCoins
  BadHex = BadHex
  GoodHex = GoodHex
  MaxMethods = 3

SPECIFICATION Spec
INVARIANT CallTargetsNamedMethod
