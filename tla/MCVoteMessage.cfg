CONSTANTS
  Alnum = {"A", "B"}
  Blanks = {" "}
  Others = {"-"}
  Nul = "0"
  Space = " "
  Candidates <- TwoCandidates
  Malformed = Malformed
  Nothing = Nothing
  VoterLimit = 2
  CandidateLimit = 2
  EntryWidth = 5
  BufferSize = 6

SPECIFICATION Spec
INVARIANT AcceptsExactlyTheFormat
INVARIANT VoteIsTheOneMeant

\* One message.
CHECK_DEADLOCK FALSE
