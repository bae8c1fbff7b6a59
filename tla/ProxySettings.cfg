SPECIFICATION SettingsSpec
CONSTANTS
    Nil = Nil
    Urls = {"a", "b"}
    Bad = "bad"
    Lists <- MCLists
    Envs <- MCEnvs
    Rest = {0, 1}
    Default = 0
    Admins = {x, y}
SYMMETRY Symmetry
INVARIANTS
    Agreement
    LastRequestStands
