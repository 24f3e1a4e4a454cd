CONSTANTS
  ChannelList  <- MCChannelList
  Assets       <- MCAssets
  ChannelWords <- MCChannelWords
  AssetWords   <- MCAssetWords
  ActionWords  <- MCActionWords
  ToUpper      <- MCToUpper
  MaxPairs     = 2
SPECIFICATION Spec
INVARIANT RejectsAndAcceptsPerSpec
