\* Every call of the typed-address constructors over the scaled widths.
\* A call ends the behaviour: it returns or the kernel panics.
CONSTANTS
  WORD <- MCWord
  OFFSET_BITS <- MCOffsetBits
  INDEX_BITS <- MCIndexBits
  P3_INDEX_BITS <- MCP3IndexBits
  PA_BITS <- MCPaBits
  Calls <- MCCalls
SPECIFICATION MCSpec
CHECK_DEADLOCK FALSE
INVARIANT OversizedIndexFatal
