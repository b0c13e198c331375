SPECIFICATION Spec
CONSTANTS
    Registers = {0, 7, 10}
    Operands <- TriedOperands
    Offsets <- TriedOffsets
    JumpFields <- TriedJumpFields
    JumpDraws <- TriedJumpDraws
    Draws <- TriedDraws
    MaxTurns = 3
    TurnInstructions <- TriedTurnInstructions
INVARIANTS
    KernelStaysInStep
    KernelReadsInstruction
    OperandArrives
    RandomInstructionsLegal
    KernelReadsFilter
    FunctionsAreFound
    BtfAccepted
