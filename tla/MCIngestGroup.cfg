SPECIFICATION Spec
CONSTANTS
    lid = lid
    phone = phone
    me = me
    group = group
    m1 = m1
    m2 = m2
    Lids <- MCLids
    Phones <- MCPhones
    Groups <- MCGroups
    PnOf <- MCPnOf
    Ids <- MCIds
    Conv <- MCConvGroup
    Author <- MCAuthor
    TimeOf <- MCTimeOf
    TextOf <- MCTextOf
    Me = me
    PushNamed <- MCPushNamed
    WaContacts <- MCWaContacts
INVARIANT NeverConflated
