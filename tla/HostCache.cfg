CONSTANTS
    MaxVersion = 2
    MaxInFlight = 3
    MaxFails = 1
    Menus = {1, 2}
    Empty = Empty
SPECIFICATION Spec
PROPERTY SidebarRefines
