CONSTANTS
  Calls <- MCCalls
  CoreErrors <- MCCoreErrors
  Stored <- MCStored
  Objects <- MCObjects
  CoreValues <- MCCoreValues
  Nodes <- MCNodes
  ToValueAt <- MCToValueAt
  FromValue <- MCFromValue
  ExpressionAt <- MCExpressionAt
  AsStored <- MCAsStored
  IntBits = 8
  MaxDepth = 2
  MaxBinName = 3
  MaxExpressionDepth = 1
SPECIFICATION Spec
CHECK_DEADLOCK FALSE
INVARIANTS
  SameOutcomeOnBothClients
  NoPanicEscapes
  MetaGenerationIsChecked
  BatchOperateIsEncodable
  FilterIsSent
  SameKeySameRecord
  WhatIsSentReadsBack
