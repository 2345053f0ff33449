CONSTANTS
    FirstMax = 3
    NameChars = {"a", "b"}
    MaxName = 2
    MaxElems = 2
    MaxPost = 3
    Documents <- MCDocuments
    Texts <- MCTexts
SPECIFICATION Spec
CHECK_DEADLOCK FALSE
INVARIANTS PathHolds DocumentRead TreeAsRead SettingsAsAssigned OutputAsPushed PassedWhole
