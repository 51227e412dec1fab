SPECIFICATION Spec
CONSTANTS
  PAGE_SIZE = 4
  BITMAP_BITS = 10
  MAX_PMM_REGIONS = 6
  BIOS_END = 7
  KERNEL_START = 12
  KERNEL_END = 19
  VGA = 6
  BootInfos <- MCBootInfos
  MAX_LOADED_MODULES = 2
  MAX_MODULE_PAGES = 3
  REGION = 4
  MAX_OTHERS = 1
  Exports = {"printk"}
  Images <- MCImages
  Desc <- MCDesc
  Names = {"hello", "gaps"}
INVARIANTS
  TypeOK
  FramesConserved
  NoDanglingPage
  NewestModuleIntact
CHECK_DEADLOCK FALSE
