CONSTANTS
  call1 = call1
  call2 = call2
  Calls = {call1}
  Startup = startup
  Watch = watch
  Outcomes = {"ok", "not_ok", "error"}
  MaxChanges = 2
SPECIFICATION Spec
INVARIANTS TypeOK IssuesExclude CarriedIsAnswered UploadedFromFile
PROPERTY ChangeIsSent
