SPECIFICATION MCSpec
CONSTANTS
    User = {ann, bob}
    Text = {x}
    MaxComment = 3
    MaxVersion = 60
VIEW StateView
SYMMETRY Alike
INVARIANTS
    MentionsFollowText
    ThreadsStayFlat
PROPERTIES
    KeepsInbox
    NoLostEdit
