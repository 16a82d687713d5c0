SPECIFICATION Spec
CONSTANTS
    r1 = r1
    r2 = r2
    Runs = {r1, r2}
    Dialogues <- MCDialogues
SYMMETRY MCSymmetry
CHECK_DEADLOCK FALSE
INVARIANTS
    FramesAsSent
    WholeFramesTaken
    WrittenIsReadable
    SocketKept
    AnswersDue
    InOrderWithinChunk
    HandlersGetTyped
    RefusedIsFaulty
    OpenedAsAsked
    NothingBehind
