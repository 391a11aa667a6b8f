SPECIFICATION Spec
CONSTANTS
    r1 = r1
    r2 = r2
    Readers = {r1, r2}
    Names = {"default"}
    NoName = ""
    DefaultProfile = "default"
    ProjectProfiles <- MCProjectProfiles
    Repo <- MCRepo
    MaxEdits = 1
    MaxReloads = 1
    MaxStarts = 2
INVARIANT
    DefaultProfileValidated
