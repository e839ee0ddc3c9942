SPECIFICATION Spec
CONSTANTS
    Circuits <- MCCircuits
    Openings <- MCOpenings
    Publics <- MCPublics
    Evals <- MCEvals
    Prevs <- MCPrevs
    Serdes <- MCSerdes
    MaxSteps = 4
    Bits = 5
    WordBits = 3
    Order <- MCOrder
    Operands = {0, 1, 2, 7, 10}
    Ints <- MCInts
    Numerals = {0, 3, 10, 11, 12, 13, 31, 32, 40, 70}
CHECK_DEADLOCK FALSE
INVARIANTS
    KeysKeepTheirMeaning
    ProofsSurviveTheBoundary
    ValuesSurviveTheFormat
    NumbersKeepTheirValue
