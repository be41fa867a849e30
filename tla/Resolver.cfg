SPECIFICATION RSpec
CONSTANTS
  Classes <- MCClasses
  Modules <- MCModules
  ClassAliases <- MCClassAliases
  TypeAliases <- MCTypeAliases
  Programs <- MCPrograms
  MaxFastPaths = 1
INVARIANT NoCycles
INVARIANT FixedPointIsComplete
INVARIANT MixinsAreInSourceOrder
INVARIANT OnlyLateMixinsShadow
INVARIANT EveryRoundResolves
INVARIANT FastPathRepeatsRun
PROPERTY LinearizationIsRight
