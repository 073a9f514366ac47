SPECIFICATION Spec
CONSTANTS
    fileF = fileF
    fileG = fileG
    Files = {fileF, fileG}
    NoFile = NoFile
    Texts = {"old", "new"}
    Cut = "cut"
    Absent = "absent"
    NoReview = NoReview
    MaxTasks = 2
    MaxEdits = 1
    Workspaces <- MCWorkspaces
    Reviews <- MCReviews
INVARIANTS Recoverable RestoreReverts
PROPERTY TasksSettle
CHECK_DEADLOCK FALSE
