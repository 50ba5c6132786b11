CONSTANTS
    Kinds = {"openai"}
    MaxEvents <- EventsOf
    Inputs <- AnswerInputs
SPECIFICATION StreamSpec
CHECK_DEADLOCK FALSE
INVARIANT FailureIsReported
