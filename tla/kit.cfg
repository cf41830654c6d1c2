CONSTANTS
    Codes <- MCCodes
    Details <- MCDetails
    Words <- MCWords
    IntBits <- MCIntBits
    Inputs <- MCInputs
SPECIFICATION KitSpec
INVARIANTS IntegerExact NumeralExact ErrorRoundTrip
CHECK_DEADLOCK FALSE
